---- MODULE Spec2Model ----
(***************************************************************************)
(* Cross-market settlement feasibility engine.                             *)
(*                                                                         *)
(* Dates are integers (day numbers); date 0 is a Friday.  Wall-clock     *)
(* times are minutes after local midnight, instants are minutes after      *)
(* 00:00 UTC of date 0, time zones are fixed offsets in minutes.           *)
(***************************************************************************)
EXTENDS Integers, Sequences, FiniteSets, TLC

VARIABLES
    markets,          \* MarketRepository._markets : code -> Market
    exchange,         \* exchange_calendars: code -> set of weekday non-session dates
    public_holidays,  \* holidays library: code -> (date -> raw holiday name)
    manual_holidays,  \* HolidayCalendar._manual_holidays : code -> (date -> Holiday)
    overrides,        \* ManualOverrideSource._overrides : code -> (date -> ManualOverride)
    blob,             \* manual_overrides.json : the stored override dicts, or a torn file
    procs,            \* per thread: the call in progress and its position
    last              \* the last operation performed, its inputs and its outputs

vars ==
    <<markets, exchange, public_holidays, manual_holidays, overrides, blob, procs, last>>

(***************************************************************************)
(* Bounds of the model                                                     *)
(***************************************************************************)
MaxTradeDate == 3
LongClosureStart == 4
LongClosureLen == 33
MaxOverrides == 1
MaxManualHolidays == 1

Markets == {"HK", "JP"}
TradeDates == 0..MaxTradeDate
HolidayDates == {3}
\* a Saturday and a Monday
OverrideDates == {1, 3}
ManualHolidayDates == {3}
\* a Friday, a Saturday and a Monday
ConsoleDates == {0, 1, 3}
LongClosure == LongClosureStart..(LongClosureStart + LongClosureLen - 1)

(***************************************************************************)
(* Absent values (Python None)                                             *)
(***************************************************************************)
NoDate == 0 - 1
NoTime == 0 - 1
NoName == ""

(***************************************************************************)
(* Program constants                                                       *)
(***************************************************************************)
AT_RISK_THRESHOLD_MINUTES == 60
MaxDaysToSettle == 3
MaxSettlementCycle == 5
CommonScanIterations == 30
ViableScanIterations == 60
MinutesPerDay == 1440
MinutesPerHour == 60
FirstWeekendDay == 5

\* date.weekday(): Monday = 0 .. Sunday = 6; date 0 is a Friday
weekday(d) == (d + 4) % 7

\* check_date.weekday() >= 5
is_weekend(d) == weekday(d) >= FirstWeekendDay

(***************************************************************************)
(* Exchange-session adapter (exchange_calendars) and public-holiday        *)
(* adapter (holidays library)                                              *)
(***************************************************************************)
\* ExchangeCalendar.is_session
is_session(m, d) == ~is_weekend(d) /\ d \notin exchange[m]

\* HOLIDAY_NAME_MAPPINGS.get(name, name)
HOLIDAY_NAME_MAPPINGS(name) ==
    IF name = "Ganjitsu" THEN "New Year's Day" ELSE name

\* PublicHolidaySource.get_holiday_name
get_holiday_name(m, d) ==
    IF d \in DOMAIN public_holidays[m]
    THEN HOLIDAY_NAME_MAPPINGS(public_holidays[m][d])
    ELSE NoName

(***************************************************************************)
(* Manual-override store and the Holiday Data Plane (holiday_sources.py)   *)
(***************************************************************************)
NoOverride ==
    [present |-> FALSE, name |-> NoName, reason |-> NoName, is_closure |-> FALSE,
     affects_trading |-> FALSE, affects_settlement |-> FALSE]

ManualOverride(name, reason, closure, at, as) ==
    [present |-> TRUE, name |-> name, reason |-> reason, is_closure |-> closure,
     affects_trading |-> at, affects_settlement |-> as]

\* ManualOverrideSource.get_override
get_override(m, d) ==
    IF d \in DOMAIN overrides[m] THEN overrides[m][d] ELSE NoOverride

\* ManualOverrideSource.has_closure_override
has_closure_override(m, d) ==
    get_override(m, d).present /\ get_override(m, d).is_closure

\* ExchangeCalendarSource.is_trading_day
ExchangeCalendarSource_is_trading_day(m, d) == is_session(m, d)

\* HolidayDataManager.is_trading_day
HolidayDataManager_is_trading_day(m, d) ==
    LET override == get_override(m, d) IN
    IF override.present
    THEN (IF override.is_closure THEN FALSE ELSE TRUE)
    ELSE ExchangeCalendarSource_is_trading_day(m, d)

NoHolidayInfo ==
    [present |-> FALSE, name |-> NoName, source |-> "none",
     affects_trading |-> FALSE, affects_settlement |-> FALSE, notes |-> NoName]

\* HolidayDataManager.get_holiday_info
HolidayDataManager_get_holiday_info(m, d) ==
    LET override == get_override(m, d)
        holiday_name == get_holiday_name(m, d)
    IN
    IF override.present /\ override.is_closure
    THEN [present |-> TRUE, name |-> override.name, source |-> "manual_override",
          affects_trading |-> override.affects_trading,
          affects_settlement |-> override.affects_settlement,
          notes |-> override.reason]
    ELSE IF is_weekend(d)
    THEN [present |-> TRUE, name |-> "Weekend", source |-> "weekend",
          affects_trading |-> TRUE, affects_settlement |-> TRUE, notes |-> NoName]
    ELSE IF ~ExchangeCalendarSource_is_trading_day(m, d)
    THEN [present |-> TRUE,
          name |-> IF holiday_name # NoName THEN holiday_name ELSE "Market Holiday",
          source |-> IF holiday_name = NoName THEN "exchange_calendar"
                     ELSE "public_holiday",
          affects_trading |-> TRUE, affects_settlement |-> TRUE, notes |-> NoName]
    ELSE NoHolidayInfo

(***************************************************************************)
(* HolidayCalendar (models/holiday.py): the calendar the engine uses       *)
(***************************************************************************)
NoHoliday ==
    [present |-> FALSE, name |-> NoName, holiday_type |-> "none",
     affects_trading |-> FALSE, affects_settlement |-> FALSE, source |-> "none"]

Holiday(name, type, at, as, source) ==
    [present |-> TRUE, name |-> name, holiday_type |-> type,
     affects_trading |-> at, affects_settlement |-> as, source |-> source]

\* HolidayCalendar.is_trading_day
HolidayCalendar_is_trading_day(m, d) ==
    IF d \in DOMAIN manual_holidays[m] /\ manual_holidays[m][d].affects_trading
    THEN FALSE
    ELSE is_session(m, d)

\* is_settlement_day asking the exchange calendar instead of is_trading_day
HolidayCalendar_is_settlement_day_by_session(m, d) ==
    IF d \in DOMAIN manual_holidays[m] /\ manual_holidays[m][d].affects_settlement
    THEN FALSE
    ELSE is_session(m, d)

\* HolidayCalendar.is_settlement_day
HolidayCalendar_is_settlement_day(m, d) ==
    IF d \in DOMAIN manual_holidays[m] /\ manual_holidays[m][d].affects_settlement
    THEN FALSE
    ELSE HolidayCalendar_is_trading_day(m, d)

\* HolidayCalendar._get_holiday_name
HolidayCalendar_get_holiday_name(m, d) ==
    IF d \in DOMAIN public_holidays[m]
    THEN public_holidays[m][d]
    ELSE "Market Holiday"

\* HolidayCalendar.get_holiday
HolidayCalendar_get_holiday(m, d) ==
    IF d \in DOMAIN manual_holidays[m]
    THEN manual_holidays[m][d]
    ELSE IF is_weekend(d)
    THEN Holiday("Weekend", "weekend", TRUE, TRUE, "exchange_calendar")
    ELSE IF ~is_session(m, d)
    THEN Holiday(HolidayCalendar_get_holiday_name(m, d), "full_day", TRUE, TRUE,
                 "exchange_calendar")
    ELSE NoHoliday

(***************************************************************************)
(* CalendarService (services/calendar_service.py)                          *)
(***************************************************************************)
\* CalendarService.is_trading_day
is_trading_day(m, d) == HolidayCalendar_is_trading_day(m, d)

\* CalendarService.is_settlement_day
is_settlement_day(m, d) == HolidayCalendar_is_settlement_day(m, d)

\* CalendarService.get_holiday_info
get_holiday_info(m, d) == HolidayCalendar_get_holiday(m, d)

(***************************************************************************)
(* TimezoneService (services/timezone_service.py)                          *)
(***************************************************************************)
\* TimezoneService.combine_date_time_utc: local wall time of a date -> instant
combine_date_time_utc(d, t, tz) == d * MinutesPerDay + t - tz

\* TimezoneService.convert_from_utc: instant -> local date-time (minutes)
convert_from_utc(instant, tz) == instant + tz

\* datetime.time() and datetime.date() of a local date-time
time_of(local) == local % MinutesPerDay
date_of(local) == local \div MinutesPerDay

\* _build_trading_sessions with the afternoon session listed first
_build_trading_sessions_afternoon_first(d, tz, open_time, close_time, lunch_start, lunch_end) ==
    LET open_utc == combine_date_time_utc(d, open_time, tz)
        close_utc == combine_date_time_utc(d, close_time, tz)
    IN
    IF lunch_start # NoTime /\ lunch_end # NoTime
    THEN << <<combine_date_time_utc(d, lunch_end, tz), close_utc>>,
            <<open_utc, combine_date_time_utc(d, lunch_start, tz)>> >>
    ELSE << <<open_utc, close_utc>> >>

\* TimezoneService._build_trading_sessions
_build_trading_sessions(d, tz, open_time, close_time, lunch_start, lunch_end) ==
    LET open_utc == combine_date_time_utc(d, open_time, tz)
        close_utc == combine_date_time_utc(d, close_time, tz)
    IN
    IF lunch_start # NoTime /\ lunch_end # NoTime
    THEN << <<open_utc, combine_date_time_utc(d, lunch_start, tz)>>,
            <<combine_date_time_utc(d, lunch_end, tz), close_utc>> >>
    ELSE << <<open_utc, close_utc>> >>

Max(x, y) == IF x >= y THEN x ELSE y
Min(x, y) == IF x <= y THEN x ELSE y

OverlapWindow(s, e, tz_a, tz_b) ==
    [start_utc |-> s, end_utc |-> e,
     start_market_a_local |-> convert_from_utc(s, tz_a),
     end_market_a_local |-> convert_from_utc(e, tz_a),
     start_market_b_local |-> convert_from_utc(s, tz_b),
     end_market_b_local |-> convert_from_utc(e, tz_b),
     duration_minutes |-> e - s]

\* overlap_of_pair keeping the windows of closed intervals
overlap_of_pair_closed(a, b, tz_a, tz_b, acc) ==
    LET overlap_start == Max(a[1], b[1])
        overlap_end == Min(a[2], b[2])
    IN
    IF overlap_start <= overlap_end
    THEN Append(acc, OverlapWindow(overlap_start, overlap_end, tz_a, tz_b))
    ELSE acc

\* the body of the nested loop of calculate_overlap_with_lunch_breaks
overlap_of_pair(a, b, tz_a, tz_b, acc) ==
    LET overlap_start == Max(a[1], b[1])
        overlap_end == Min(a[2], b[2])
    IN
    IF overlap_start < overlap_end
    THEN Append(acc, OverlapWindow(overlap_start, overlap_end, tz_a, tz_b))
    ELSE acc

RECURSIVE overlap_loop(_, _, _, _, _, _, _)
overlap_loop(a_sessions, b_sessions, i, j, tz_a, tz_b, acc) ==
    IF i > Len(a_sessions) THEN acc
    ELSE IF j > Len(b_sessions)
    THEN overlap_loop(a_sessions, b_sessions, i + 1, 1, tz_a, tz_b, acc)
    ELSE overlap_loop(a_sessions, b_sessions, i, j + 1, tz_a, tz_b,
                      overlap_of_pair(a_sessions[i], b_sessions[j], tz_a, tz_b, acc))

\* TimezoneService.calculate_overlap_with_lunch_breaks
calculate_overlap_with_lunch_breaks(ma, mb, d) ==
    overlap_loop(
        _build_trading_sessions(d, ma.timezone, ma.open, ma.close,
                                ma.lunch_start, ma.lunch_end),
        _build_trading_sessions(d, mb.timezone, mb.open, mb.close,
                                mb.lunch_start, mb.lunch_end),
        1, 1, ma.timezone, mb.timezone, << >>)

\* TimezoneService.is_time_in_range
is_time_in_range(check_time, start_time, end_time) ==
    start_time <= check_time /\ check_time < end_time

(***************************************************************************)
(* CalendarService: settlement dates, overlaps, next viable trade date     *)
(***************************************************************************)
\* the reason recorded for a skipped day
skip_reason(m, d) ==
    IF is_weekend(d) THEN "Weekend"
    ELSE IF HolidayCalendar_get_holiday(m, d).present
         THEN HolidayCalendar_get_holiday(m, d).name
         ELSE "Market Holiday"

\* the while loop of calculate_settlement_date
RECURSIVE settlement_loop(_, _, _, _, _)
settlement_loop(m, current_date, business_days_counted, settlement_cycle, skipped_days) ==
    IF ~(business_days_counted < settlement_cycle)
    THEN [settlement_date |-> current_date, skipped_days |-> skipped_days]
    ELSE LET next_date == current_date + 1 IN
         IF HolidayCalendar_is_settlement_day(m, next_date)
         THEN settlement_loop(m, next_date, business_days_counted + 1,
                              settlement_cycle, skipped_days)
         ELSE settlement_loop(m, next_date, business_days_counted, settlement_cycle,
                              Append(skipped_days, <<next_date, skip_reason(m, next_date)>>))

\* calculate_settlement_date counting calendar days instead of settlement days
calculate_settlement_date_in_calendar_days(m, trade_date, settlement_cycle) ==
    [trade_date |-> trade_date,
     settlement_date |-> trade_date + settlement_cycle,
     market_code |-> m,
     days_to_settle |-> settlement_cycle,
     skipped_days |-> << >>]

\* calculate_settlement_date without the record of the days it skipped
calculate_settlement_date_without_skipped_days(m, trade_date, settlement_cycle) ==
    LET r == settlement_loop(m, trade_date, 0, settlement_cycle, << >>) IN
    [trade_date |-> trade_date,
     settlement_date |-> r.settlement_date,
     market_code |-> m,
     days_to_settle |-> r.settlement_date - trade_date,
     skipped_days |-> << >>]

\* CalendarService.calculate_settlement_date
calculate_settlement_date(m, trade_date, settlement_cycle) ==
    LET r == settlement_loop(m, trade_date, 0, settlement_cycle, << >>) IN
    [trade_date |-> trade_date,
     settlement_date |-> r.settlement_date,
     market_code |-> m,
     days_to_settle |-> r.settlement_date - trade_date,
     skipped_days |-> r.skipped_days]

\* the for loop of calculate_common_settlement_date
RECURSIVE common_loop(_, _, _, _)
common_loop(a, b, common_date, i) ==
    IF i >= CommonScanIterations THEN common_date
    ELSE IF HolidayCalendar_is_settlement_day(a, common_date)
            /\ HolidayCalendar_is_settlement_day(b, common_date)
    THEN common_date
    ELSE common_loop(a, b, common_date + 1, i + 1)

\* calculate_common_settlement_date without the roll forward
calculate_common_settlement_date_without_roll_forward(a, b, trade_date) ==
    LET result_a == calculate_settlement_date(a, trade_date, markets[a].settlement_cycle)
        result_b == calculate_settlement_date(b, trade_date, markets[b].settlement_cycle)
    IN
    [common_date |-> Max(result_a.settlement_date, result_b.settlement_date),
     result_a |-> result_a,
     result_b |-> result_b]

\* CalendarService.calculate_common_settlement_date
calculate_common_settlement_date(a, b, trade_date) ==
    LET result_a == calculate_settlement_date(a, trade_date, markets[a].settlement_cycle)
        result_b == calculate_settlement_date(b, trade_date, markets[b].settlement_cycle)
    IN
    [common_date |-> common_loop(a, b, Max(result_a.settlement_date,
                                           result_b.settlement_date), 0),
     result_a |-> result_a,
     result_b |-> result_b]

\* number of dates get_next_trading_day and get_previous_trading_day look at
TradingDayScanIterations == 30

\* the for loop of get_next_trading_day (step 1) and get_previous_trading_day (step -1)
RECURSIVE trading_day_loop(_, _, _, _)
trading_day_loop(m, check_date, step, i) ==
    IF i >= TradingDayScanIterations THEN [raised |-> TRUE, date |-> NoDate]
    ELSE IF HolidayCalendar_is_trading_day(m, check_date)
    THEN [raised |-> FALSE, date |-> check_date]
    ELSE trading_day_loop(m, check_date + step, step, i + 1)

\* get_next_trading_day with the scan starting at from_date itself
get_next_trading_day_from_date_on(m, from_date) == trading_day_loop(m, from_date, 1, 0)

\* HolidayCalendar.get_next_trading_day
get_next_trading_day(m, from_date) == trading_day_loop(m, from_date + 1, 1, 0)

\* HolidayCalendar.get_previous_trading_day
get_previous_trading_day(m, from_date) == trading_day_loop(m, from_date - 1, 0 - 1, 0)

\* CalendarService.get_trading_overlap_for_date
get_trading_overlap_for_date(a, b, d) ==
    IF ~is_trading_day(a, d) THEN [is_none |-> TRUE, windows |-> << >>]
    ELSE IF ~is_trading_day(b, d) THEN [is_none |-> TRUE, windows |-> << >>]
    ELSE [is_none |-> FALSE,
          windows |-> calculate_overlap_with_lunch_breaks(markets[a], markets[b], d)]

\* the for loop of find_next_viable_trade_date
RECURSIVE viable_loop(_, _, _, _, _)
viable_loop(a, b, check_date, require_overlap, i) ==
    IF i >= ViableScanIterations THEN [raised |-> TRUE, date |-> NoDate]
    ELSE IF is_trading_day(a, check_date) /\ is_trading_day(b, check_date)
            /\ (require_overlap =>
                    Len(get_trading_overlap_for_date(a, b, check_date).windows) > 0)
    THEN [raised |-> FALSE, date |-> check_date]
    ELSE viable_loop(a, b, check_date + 1, require_overlap, i + 1)

\* find_next_viable_trade_date never asking for a trading-hour overlap
find_next_viable_trade_date_ignoring_overlap(a, b, from_date, require_overlap) ==
    viable_loop(a, b, from_date, FALSE, 0)

\* find_next_viable_trade_date looking at the first market only
find_next_viable_trade_date_of_first_market(a, b, from_date, require_overlap) ==
    viable_loop(a, a, from_date, require_overlap, 0)

\* CalendarService.find_next_viable_trade_date
find_next_viable_trade_date(a, b, from_date, require_overlap) ==
    viable_loop(a, b, from_date, require_overlap, 0)

(***************************************************************************)
(* SettlementEngine (services/settlement_engine.py)                        *)
(***************************************************************************)
\* the reason given for a closed market in _validate_trade_date
closed_reason(m, d) ==
    IF get_holiday_info(m, d).present THEN get_holiday_info(m, d).name
    ELSE "Market closed"

\* SettlementEngine._validate_trade_date
_validate_trade_date(trade_date, market_a, market_b) ==
    LET is_trading_a == is_trading_day(market_a, trade_date)
        is_trading_b == is_trading_day(market_b, trade_date)
        messages_a == IF ~is_trading_a
                      THEN << [market |-> market_a,
                               reason |-> closed_reason(market_a, trade_date)] >>
                      ELSE << >>
        messages_b == IF ~is_trading_b
                      THEN << [market |-> market_b,
                               reason |-> closed_reason(market_b, trade_date)] >>
                      ELSE << >>
    IN
    IF is_trading_a /\ is_trading_b
    THEN [valid |-> TRUE, messages |-> << >>,
          market_a_open |-> TRUE, market_b_open |-> TRUE]
    ELSE [valid |-> FALSE, messages |-> messages_a \o messages_b,
          market_a_open |-> is_trading_a, market_b_open |-> is_trading_b]

\* _check_cut_off_times with the cut-off instant itself counted as before the cut-off
_check_cut_off_times_inclusive(execution_time, market_code) ==
    LET cut_off_time == markets[market_code].depository_cut_off
        exec_local == convert_from_utc(execution_time, markets[market_code].timezone)
        exec_time_only == time_of(exec_local)
        is_before == exec_time_only <= cut_off_time
    IN
    IF cut_off_time = NoTime
    THEN [market_code |-> market_code, cut_off_time |-> NoTime,
          is_before_cut_off |-> TRUE, time_remaining |-> NoTime]
    ELSE [market_code |-> market_code, cut_off_time |-> cut_off_time,
          is_before_cut_off |-> is_before,
          time_remaining |->
              IF is_before
              THEN (date_of(exec_local) * MinutesPerDay + cut_off_time)
                   - (date_of(exec_local) * MinutesPerDay + exec_time_only)
              ELSE NoTime]

\* _check_cut_off_times comparing the whole local instant, not its time of day
_check_cut_off_times_of_the_instant(execution_time, market_code) ==
    LET cut_off_time == markets[market_code].depository_cut_off
        exec_local == convert_from_utc(execution_time, markets[market_code].timezone)
        exec_time_only == time_of(exec_local)
        is_before == exec_local < cut_off_time
    IN
    IF cut_off_time = NoTime
    THEN [market_code |-> market_code, cut_off_time |-> NoTime,
          is_before_cut_off |-> TRUE, time_remaining |-> NoTime]
    ELSE [market_code |-> market_code, cut_off_time |-> cut_off_time,
          is_before_cut_off |-> is_before,
          time_remaining |->
              IF is_before
              THEN (date_of(exec_local) * MinutesPerDay + cut_off_time)
                   - (date_of(exec_local) * MinutesPerDay + exec_time_only)
              ELSE NoTime]

\* SettlementEngine._check_cut_off_times
_check_cut_off_times(execution_time, market_code) ==
    LET cut_off_time == markets[market_code].depository_cut_off
        exec_local == convert_from_utc(execution_time, markets[market_code].timezone)
        exec_time_only == time_of(exec_local)
        is_before == exec_time_only < cut_off_time
    IN
    IF cut_off_time = NoTime
    THEN [market_code |-> market_code, cut_off_time |-> NoTime,
          is_before_cut_off |-> TRUE, time_remaining |-> NoTime]
    ELSE [market_code |-> market_code, cut_off_time |-> cut_off_time,
          is_before_cut_off |-> is_before,
          time_remaining |->
              IF is_before
              THEN (date_of(exec_local) * MinutesPerDay + cut_off_time)
                   - (date_of(exec_local) * MinutesPerDay + exec_time_only)
              ELSE NoTime]

\* truth value of an Optional[timedelta]: None and timedelta(0) are false
timedelta_truthy(t) == t # NoTime /\ t # 0

\* _determine_status with the at-risk threshold taken inclusively
_determine_status_threshold_inclusive(trade_date_valid, cut_off_checks, buy_settlement_result, sell_settlement_result, has_execution_time) ==
    LET any_past_cut_off ==
            \E i \in 1..Len(cut_off_checks) : ~cut_off_checks[i].is_before_cut_off
        close_to_cut_off ==
            has_execution_time /\ Len(cut_off_checks) > 0
            /\ \E i \in 1..Len(cut_off_checks) :
                   /\ timedelta_truthy(cut_off_checks[i].time_remaining)
                   /\ cut_off_checks[i].time_remaining <= AT_RISK_THRESHOLD_MINUTES
        max_days_to_settle == Max(buy_settlement_result.days_to_settle,
                                  sell_settlement_result.days_to_settle)
    IN
    IF ~trade_date_valid THEN "UNLIKELY"
    ELSE IF any_past_cut_off THEN "UNLIKELY"
    ELSE IF close_to_cut_off THEN "AT_RISK"
    ELSE IF max_days_to_settle > MaxDaysToSettle THEN "AT_RISK"
    ELSE "LIKELY"

\* SettlementEngine._determine_status
_determine_status(trade_date_valid, cut_off_checks, buy_settlement_result, sell_settlement_result, has_execution_time) ==
    LET any_past_cut_off ==
            \E i \in 1..Len(cut_off_checks) : ~cut_off_checks[i].is_before_cut_off
        close_to_cut_off ==
            has_execution_time /\ Len(cut_off_checks) > 0
            /\ \E i \in 1..Len(cut_off_checks) :
                   /\ timedelta_truthy(cut_off_checks[i].time_remaining)
                   /\ cut_off_checks[i].time_remaining < AT_RISK_THRESHOLD_MINUTES
        max_days_to_settle == Max(buy_settlement_result.days_to_settle,
                                  sell_settlement_result.days_to_settle)
    IN
    IF ~trade_date_valid THEN "UNLIKELY"
    ELSE IF any_past_cut_off THEN "UNLIKELY"
    ELSE IF close_to_cut_off THEN "AT_RISK"
    ELSE IF max_days_to_settle > MaxDaysToSettle THEN "AT_RISK"
    ELSE "LIKELY"

NoTimeRemaining == [present |-> FALSE, hours |-> 0, minutes |-> 0, form |-> ""]

\* Deadline.create
Deadline_create(market_code, deadline_type, deadline_utc, local_time, current_time) ==
    LET is_passed == current_time > deadline_utc
        delta == deadline_utc - current_time
        hours == delta \div MinutesPerHour
        minutes == delta % MinutesPerHour
    IN
    [market_code |-> market_code,
     deadline_type |-> deadline_type,
     deadline_time |-> deadline_utc,
     local_time |-> local_time,
     is_passed |-> is_passed,
     time_remaining |->
         IF is_passed THEN NoTimeRemaining
         ELSE IF hours > 0
         THEN [present |-> TRUE, hours |-> hours, minutes |-> minutes, form |-> "Xh Ym"]
         ELSE [present |-> TRUE, hours |-> 0, minutes |-> minutes, form |-> "Ym"]]

\* list.sort(key=lambda d: d.deadline_time): stable, ascending
RECURSIVE insert_by_deadline_time(_, _)
insert_by_deadline_time(sorted, d) ==
    IF sorted = << >> THEN << d >>
    ELSE IF sorted[Len(sorted)].deadline_time <= d.deadline_time
    THEN Append(sorted, d)
    ELSE Append(insert_by_deadline_time(SubSeq(sorted, 1, Len(sorted) - 1), d),
                sorted[Len(sorted)])

RECURSIVE sort_by_deadline_time(_)
sort_by_deadline_time(deadlines) ==
    IF deadlines = << >> THEN << >>
    ELSE insert_by_deadline_time(
             sort_by_deadline_time(SubSeq(deadlines, 1, Len(deadlines) - 1)),
             deadlines[Len(deadlines)])

\* the deadlines one market contributes in _build_deadlines
market_deadlines(trade_date, m, current_utc) ==
    LET market == markets[m]
        cut_off == IF market.depository_cut_off # NoTime
                   THEN << Deadline_create(m, "depository_cut_off",
                               combine_date_time_utc(trade_date, market.depository_cut_off,
                                                     market.timezone),
                               market.depository_cut_off, current_utc) >>
                   ELSE << >>
    IN
    cut_off \o << Deadline_create(m, "market_close",
                      combine_date_time_utc(trade_date, market.close, market.timezone),
                      market.close, current_utc) >>

\* _build_deadlines without the final sort
_build_deadlines_unsorted(trade_date, buy_market, sell_market, current_utc) ==
    market_deadlines(trade_date, buy_market, current_utc)
    \o market_deadlines(trade_date, sell_market, current_utc)

\* SettlementEngine._build_deadlines
_build_deadlines(trade_date, buy_market, sell_market, current_utc) ==
    sort_by_deadline_time(market_deadlines(trade_date, buy_market, current_utc)
                          \o market_deadlines(trade_date, sell_market, current_utc))

NoMarketDayInfo ==
    [present |-> FALSE, market_code |-> NoName, date |-> NoDate,
     is_trading_day |-> FALSE, is_settlement_day |-> FALSE, holiday_name |-> NoName]

\* SettlementEngine._build_market_day_info
_build_market_day_info(market_code, check_date) ==
    [present |-> TRUE, market_code |-> market_code, date |-> check_date,
     is_trading_day |-> is_trading_day(market_code, check_date),
     is_settlement_day |-> is_settlement_day(market_code, check_date),
     holiday_name |-> get_holiday_info(market_code, check_date).name]

\* an Optional[bool]
OptionalBool(b) == IF b THEN "True" ELSE "False"

\* SettlementEngine._build_settlement_details
_build_settlement_details(trade_date, buy_market, sell_market, settlement_date, has_execution_time, execution_time) ==
    LET overlaps == get_trading_overlap_for_date(buy_market, sell_market, trade_date).windows
        has_overlap == Len(overlaps) > 0
        check_execution == has_execution_time /\ has_overlap
    IN
    [trade_date_buy_market |-> _build_market_day_info(buy_market, trade_date),
     trade_date_sell_market |-> _build_market_day_info(sell_market, trade_date),
     settlement_date_buy_market |->
         IF settlement_date # NoDate
         THEN _build_market_day_info(buy_market, settlement_date) ELSE NoMarketDayInfo,
     settlement_date_sell_market |->
         IF settlement_date # NoDate
         THEN _build_market_day_info(sell_market, settlement_date) ELSE NoMarketDayInfo,
     has_trading_overlap |-> has_overlap,
     overlap_start_utc |-> IF has_overlap THEN overlaps[1].start_utc ELSE NoTime,
     overlap_end_utc |-> IF has_overlap THEN overlaps[Len(overlaps)].end_utc ELSE NoTime,
     execution_time_valid |->
         IF check_execution
         THEN OptionalBool(\E i \in 1..Len(overlaps) :
                  overlaps[i].start_utc <= execution_time
                  /\ execution_time <= overlaps[i].end_utc)
         ELSE "None",
     execution_before_cut_off |->
         IF check_execution
         THEN OptionalBool(
                  _check_cut_off_times(execution_time, buy_market).is_before_cut_off
                  /\ _check_cut_off_times(execution_time, sell_market).is_before_cut_off)
         ELSE "None"]

\* a warning of a settlement result
Warning(kind, market, cut_off_time, reasons) ==
    [kind |-> kind, market |-> market, cut_off_time |-> cut_off_time, reasons |-> reasons]

\* a recommendation of a settlement result
Recommendation(text, d) == [text |-> text, date |-> d]

NoDetails == [present |-> FALSE]

\* the outcome of a check_settlement call that raised
RaisedResult(trade_date, buy_market, sell_market) ==
    [raised |-> TRUE, status |-> "ValueError", trade_date |-> trade_date,
     settlement_date |-> NoDate, buy_market |-> buy_market, sell_market |-> sell_market,
     deadlines |-> << >>, warnings |-> << >>, recommendations |-> << >>,
     details |-> NoDetails]

\* SettlementResult.create_unlikely
create_unlikely(trade_date, buy_market, sell_market, message, next_viable_date, warnings, details) ==
    [raised |-> FALSE, status |-> "UNLIKELY", message |-> message, trade_date |-> trade_date,
     settlement_date |-> NoDate, buy_market |-> buy_market, sell_market |-> sell_market,
     deadlines |-> << >>, warnings |-> warnings,
     recommendations |->
         << Recommendation("Consider postponing trade to next common business day",
                           NoDate) >>
         \o (IF next_viable_date # NoDate
             THEN << Recommendation("Next viable trade date", next_viable_date) >>
             ELSE << >>),
     details |-> details]

\* SettlementResult.create_likely
create_likely(trade_date, settlement_date, buy_market, sell_market, deadlines, details) ==
    [raised |-> FALSE, status |-> "LIKELY", trade_date |-> trade_date,
     settlement_date |-> settlement_date, buy_market |-> buy_market,
     sell_market |-> sell_market, deadlines |-> deadlines, warnings |-> << >>,
     recommendations |->
         << Recommendation("Ensure trade instructions are submitted before cut-off times",
                           NoDate),
            Recommendation("Monitor both markets for any unexpected closures", NoDate) >>,
     details |-> details]

\* SettlementResult.create_at_risk
create_at_risk(trade_date, settlement_date, buy_market, sell_market, warnings, deadlines, details) ==
    [raised |-> FALSE, status |-> "AT_RISK", trade_date |-> trade_date,
     settlement_date |-> settlement_date, buy_market |-> buy_market,
     sell_market |-> sell_market, deadlines |-> deadlines, warnings |-> warnings,
     recommendations |->
         << Recommendation("Immediate action required for trade confirmation", NoDate),
            Recommendation("Contact counterparty to ensure timely processing", NoDate),
            Recommendation("Consider alternative execution timing if possible", NoDate) >>,
     details |-> details]

\* the ValueError of MarketRepository.get_or_raise: the code and the available codes
get_market_error(code) == [code |-> code, available |-> DOMAIN markets]

\* SettlementEngine._build_unlikely_message
_build_unlikely_message(trade_date, warnings) ==
    IF warnings # << >>
    THEN [kind |-> "settlement_unlikely", warnings |-> warnings]
    ELSE [kind |-> "not_valid_for_both", trade_date |-> trade_date]

\* the values the engine computed on the way to a result
Observed(result, valid, checks, buy_days, sell_days) ==
    result @@ [trade_date_valid |-> valid, cut_off_checks |-> checks,
               buy_days_to_settle |-> buy_days, sell_days_to_settle |-> sell_days]

\* warnings of check_settlement for cut-offs already passed
past_cut_off_warnings(cut_off_checks) ==
    LET warn(c) == IF ~c.is_before_cut_off
                   THEN << Warning("past_cut_off", c.market_code, c.cut_off_time, << >>) >>
                   ELSE << >>
    IN
    IF cut_off_checks = << >> THEN << >>
    ELSE warn(cut_off_checks[1]) \o warn(cut_off_checks[2])

\* SettlementEngine.check_settlement, from step 2 on (trade date valid)
check_settlement_valid_date(request, current_utc, trade_date_validation) ==
    LET buy_market == request.buy_market
        sell_market == request.sell_market
        trade_date == request.trade_date
        cut_off_checks ==
            IF request.has_execution_time
            THEN << _check_cut_off_times(request.execution_time, buy_market),
                    _check_cut_off_times(request.execution_time, sell_market) >>
            ELSE << >>
        warnings == past_cut_off_warnings(cut_off_checks)
        common == calculate_common_settlement_date(buy_market, sell_market, trade_date)
        details == _build_settlement_details(trade_date, buy_market, sell_market,
                       common.common_date, request.has_execution_time,
                       request.execution_time)
        deadlines == _build_deadlines(trade_date, buy_market, sell_market, current_utc)
        status == _determine_status(trade_date_validation.valid, cut_off_checks,
                      common.result_a, common.result_b, request.has_execution_time)
        next_viable == find_next_viable_trade_date(buy_market, sell_market,
                                                   trade_date + 1, FALSE)
        result ==
            IF status = "LIKELY"
            THEN create_likely(trade_date, common.common_date, buy_market, sell_market,
                               deadlines, details)
            ELSE IF status = "AT_RISK"
            THEN create_at_risk(trade_date, common.common_date, buy_market, sell_market,
                                warnings, deadlines, details)
            ELSE IF next_viable.raised
            THEN RaisedResult(trade_date, buy_market, sell_market)
            ELSE create_unlikely(trade_date, buy_market, sell_market,
                                 _build_unlikely_message(trade_date, warnings),
                                 next_viable.date, warnings, details)
    IN
    Observed(result, TRUE, cut_off_checks, common.result_a.days_to_settle,
             common.result_b.days_to_settle)

\* SettlementEngine.check_settlement, the branch of a trade date that is not valid
check_settlement_invalid_date(request, trade_date_validation) ==
    LET buy_market == request.buy_market
        sell_market == request.sell_market
        trade_date == request.trade_date
        next_viable == find_next_viable_trade_date(buy_market, sell_market,
                                                   trade_date, FALSE)
    IN
    Observed(
        IF next_viable.raised
        THEN RaisedResult(trade_date, buy_market, sell_market)
        ELSE create_unlikely(trade_date, buy_market, sell_market,
                 Warning("trade_date_not_valid", NoName, NoTime,
                         trade_date_validation.messages),
                 next_viable.date,
                 << Warning("trade_date_not_valid", NoName, NoTime,
                            trade_date_validation.messages) >>,
                 _build_settlement_details(trade_date, buy_market, sell_market,
                                           NoDate, FALSE, 0)),
        FALSE, << >>, NoDate, NoDate)

\* check_settlement without the except clause around the market lookups
check_settlement_without_except(request, current_utc) ==
    LET buy_market == request.buy_market
        sell_market == request.sell_market
        trade_date == request.trade_date
        trade_date_validation == _validate_trade_date(trade_date, buy_market, sell_market)
    IN
    IF buy_market \notin DOMAIN markets \/ sell_market \notin DOMAIN markets
    THEN Observed(RaisedResult(trade_date, buy_market, sell_market),
                  FALSE, << >>, NoDate, NoDate)
    ELSE IF ~trade_date_validation.valid
    THEN check_settlement_invalid_date(request, trade_date_validation)
    ELSE check_settlement_valid_date(request, current_utc, trade_date_validation)

\* SettlementEngine.check_settlement
check_settlement(request, current_utc) ==
    LET buy_market == request.buy_market
        sell_market == request.sell_market
        trade_date == request.trade_date
        trade_date_validation == _validate_trade_date(trade_date, buy_market, sell_market)
    IN
    IF buy_market \notin DOMAIN markets \/ sell_market \notin DOMAIN markets
    THEN LET e == get_market_error(IF buy_market \notin DOMAIN markets
                                   THEN buy_market ELSE sell_market)
         IN
         Observed(
             create_unlikely(trade_date, buy_market, sell_market,
                 [kind |-> "unknown_market", error |-> e], NoDate,
                 << Warning("unknown_market", e.code, NoTime, << >>) >>,
                 NoDetails),
             FALSE, << >>, NoDate, NoDate)
    ELSE IF ~trade_date_validation.valid
    THEN check_settlement_invalid_date(request, trade_date_validation)
    ELSE check_settlement_valid_date(request, current_utc, trade_date_validation)

(***************************************************************************)
(* Inputs of the model                                                     *)
(***************************************************************************)
\* a market record of markets.json
Market(tz, open, close, lunch_start, lunch_end, cycle, cut_off) ==
    [timezone |-> tz, open |-> open, close |-> close,
     lunch_start |-> lunch_start, lunch_end |-> lunch_end,
     settlement_cycle |-> cycle, depository_cut_off |-> cut_off]

\* Asia/Hong_Kong is UTC+8, Asia/Tokyo is UTC+9
Timezone == [m \in Markets |-> IF m = "HK" THEN 480 ELSE 540]

\* the depository cut-offs: 16:00 in Hong Kong, 14:00 in Tokyo
CutOff == [m \in Markets |-> IF m = "HK" THEN 960 ELSE 840]

\* the registry with the given settlement cycles and depository cut-offs
Registry(cycle, cut_off) ==
    [m \in Markets |->
        IF m = "HK" THEN Market(Timezone[m], 570, 960, 720, 780, cycle[m], cut_off[m])
                    ELSE Market(Timezone[m], 540, 900, 690, 750, cycle[m], cut_off[m])]

SettlementCycles == 0..MaxSettlementCycle

EmptyTable == [m \in Markets |-> [d \in {} |-> d]]

\* number of entries of a per-market table
RECURSIVE CountOver(_, _)
CountOver(table, ms) ==
    IF ms = {} THEN 0
    ELSE LET m == CHOOSE x \in ms : TRUE IN
         Cardinality(DOMAIN table[m]) + CountOver(table, ms \ {m})

Entries(table) == CountOver(table, Markets)

\* table with the entry of (m, d) set to v
Put(table, m, d, v) ==
    [table EXCEPT ![m] = [x \in (DOMAIN @) \cup {d} |-> IF x = d THEN v ELSE @[x]]]

\* a del that leaves the table as it was
Delete_nothing(table, m, d) == table

\* table without the entry of (m, d)
Delete(table, m, d) ==
    [table EXCEPT ![m] = [x \in (DOMAIN @) \ {d} |-> @[x]]]

OverrideChoices ==
    { ManualOverride("Typhoon Signal 8", "Typhoon", TRUE, TRUE, TRUE),
      ManualOverride("Special Session", "Make-up trading day", FALSE, TRUE, TRUE) }

ManualHolidayChoices ==
    { Holiday("Typhoon Signal 8", "special_closure", TRUE, TRUE, "manual"),
      Holiday("Depository Closed", "special_closure", FALSE, TRUE, "manual") }

\* execution instants, as minutes after 00:00 UTC of the trade date
ExecutionOffsets == {60, 270, 300, 450}

\* the execution instant the console sends: 14:00 in Tokyo, 13:00 in Hong Kong
ConsoleExecutionOffsets == {300}

\* values of the clock read by _build_deadlines
ConsoleClock == {0}
NowChoices == {-90, 60, 120, 130, 300}

QueryDates == 0..MaxTradeDate

\* a settlement check request
Request(trade_date, buy_market, sell_market, has_execution_time, execution_time) ==
    [trade_date |-> trade_date, buy_market |-> buy_market, sell_market |-> sell_market,
     has_execution_time |-> has_execution_time, execution_time |-> execution_time]

(***************************************************************************)
(* Operations                                                              *)
(***************************************************************************)
Unchanged_data ==
    UNCHANGED <<markets, exchange, public_holidays, manual_holidays, overrides, blob, procs>>

\* SettlementEngine.check_settlement with the inputs drawn from the given sets
CheckSettlementWith(dates, offsets, with_no_execution_time, clock) ==
    \E trade_date \in dates, buy_market \in Markets, sell_market \in Markets,
       current_utc \in clock :
        /\ buy_market # sell_market
        /\ \E request \in
               { Request(trade_date, buy_market, sell_market, TRUE,
                         trade_date * MinutesPerDay + o) : o \in offsets }
               \cup (IF with_no_execution_time
                     THEN { Request(trade_date, buy_market, sell_market, FALSE, 0) }
                     ELSE {}) :
            last' = [op |-> "check_settlement", request |-> request,
                     current_utc |-> current_utc,
                     result |-> check_settlement(request, current_utc)]
        /\ Unchanged_data

\* check_settlement as the operator console calls it
CheckSettlement ==
    CheckSettlementWith(ConsoleDates, ConsoleExecutionOffsets, TRUE, ConsoleClock)

\* ManualOverride.to_dict
to_dict(m, d, override) ==
    [date |-> d, market_code |-> m, name |-> override.name, reason |-> override.reason,
     is_closure |-> override.is_closure, affects_trading |-> override.affects_trading,
     affects_settlement |-> override.affects_settlement]

\* ManualOverride.from_dict
from_dict(data) ==
    ManualOverride(data.name, data.reason, data.is_closure, data.affects_trading,
                   data.affects_settlement)

\* the "overrides" list save_overrides builds from the table
all_overrides(table) ==
    UNION { { to_dict(m, d, table[m][d]) : d \in DOMAIN table[m] } : m \in Markets }

\* a JSON file written to its end
File(data) == [complete |-> TRUE, overrides |-> data]

\* a file opened for writing and not written to its end: not a JSON document
TornFile == [complete |-> FALSE, overrides |-> {}]

\* ManualOverrideSource.save_overrides, when open and json.dump succeed
save_overrides(table) == File(all_overrides(table))

\* ManualOverrideSource.add_override
AddOverride ==
    \E m \in Markets, d \in OverrideDates, override \in OverrideChoices :
        /\ d \in DOMAIN overrides[m] \/ Entries(overrides) < MaxOverrides
        /\ overrides' = Put(overrides, m, d, override)
        /\ blob' = save_overrides(overrides')
        /\ last' = [op |-> "add_override", market |-> m, date |-> d,
                    override |-> override, returned |-> TRUE]
        /\ UNCHANGED <<markets, exchange, public_holidays, manual_holidays, procs>>

\* HolidayDataManager.add_special_closure
AddSpecialClosure ==
    \E m \in Markets, d \in OverrideDates :
        /\ d \in DOMAIN overrides[m] \/ Entries(overrides) < MaxOverrides
        /\ overrides' = Put(overrides, m, d,
               ManualOverride("Typhoon Signal 8", "Typhoon", TRUE, TRUE, TRUE))
        /\ blob' = save_overrides(overrides')
        /\ last' = [op |-> "add_special_closure", market |-> m, date |-> d,
                    returned |-> TRUE]
        /\ UNCHANGED <<markets, exchange, public_holidays, manual_holidays, procs>>

\* ManualOverrideSource.remove_override
RemoveOverride ==
    \E m \in Markets, d \in OverrideDates :
        /\ IF d \in DOMAIN overrides[m]
           THEN /\ overrides' = Delete(overrides, m, d)
                /\ blob' = save_overrides(overrides')
           ELSE UNCHANGED <<overrides, blob>>
        /\ last' = [op |-> "remove_override", market |-> m, date |-> d,
                    returned |-> d \in DOMAIN overrides[m]]
        /\ UNCHANGED <<markets, exchange, public_holidays, manual_holidays, procs>>

\* HolidayCalendar.add_manual_holiday
AddManualHoliday ==
    \E m \in Markets, d \in ManualHolidayDates, holiday \in ManualHolidayChoices :
        /\ d \in DOMAIN manual_holidays[m] \/ Entries(manual_holidays) < MaxManualHolidays
        /\ manual_holidays' = Put(manual_holidays, m, d, holiday)
        /\ last' = [op |-> "add_manual_holiday", market |-> m, date |-> d,
                    holiday |-> holiday, returned |-> TRUE]
        /\ UNCHANGED <<markets, exchange, public_holidays, overrides, blob, procs>>

\* HolidayCalendar.remove_manual_holiday
RemoveManualHoliday ==
    \E m \in Markets, d \in ManualHolidayDates :
        /\ manual_holidays' = IF d \in DOMAIN manual_holidays[m]
                              THEN Delete(manual_holidays, m, d)
                              ELSE manual_holidays
        /\ last' = [op |-> "remove_manual_holiday", market |-> m, date |-> d,
                    returned |-> d \in DOMAIN manual_holidays[m]]
        /\ UNCHANGED <<markets, exchange, public_holidays, overrides, blob, procs>>

\* is_trading_day of the Holiday Data Plane and of the Calendar Service
IsTradingDay ==
    \E m \in Markets, d \in ConsoleDates :
        /\ last' = [op |-> "is_trading_day", market |-> m, date |-> d,
                    manager |-> HolidayDataManager_is_trading_day(m, d),
                    calendar |-> is_trading_day(m, d)]
        /\ Unchanged_data

\* get_holiday_info of the Holiday Data Plane and of the Calendar Service
GetHolidayInfo ==
    \E m \in Markets, d \in ConsoleDates :
        /\ last' = [op |-> "get_holiday_info", market |-> m, date |-> d,
                    manager |-> HolidayDataManager_get_holiday_info(m, d),
                    calendar |-> get_holiday_info(m, d)]
        /\ Unchanged_data

\* the threads that serve requests
Threads == {"t1", "t2"}

\* a thread with no call in progress
Idle == [pc |-> "idle"]

(***************************************************************************)
(* The program: the stores after construction, then any operation          *)
(***************************************************************************)
\* ManualOverrideSource._load_overrides
_load_overrides(file) ==
    IF ~file.complete
    THEN EmptyTable
    ELSE [m \in Markets |->
             [d \in { x.date : x \in { y \in file.overrides : y.market_code = m } } |->
                 from_dict(CHOOSE x \in file.overrides : x.market_code = m /\ x.date = d)]]

InitOverrideStore ==
    /\ public_holidays = [m \in Markets |-> IF m = "JP" THEN (3 :> "Ganjitsu") ELSE [d \in {} |-> NoName]]
    /\ blob = File({})
    /\ procs = [t \in Threads |-> Idle]
    /\ overrides = _load_overrides(blob)

Init ==
    /\ markets = Registry([m \in Markets |-> 1], CutOff)
    /\ exchange \in [Markets -> SUBSET HolidayDates]
    /\ manual_holidays = EmptyTable
    /\ InitOverrideStore
    /\ last = [op |-> "init"]

Next ==
    \/ CheckSettlement
    \/ AddOverride
    \/ AddSpecialClosure
    \/ RemoveOverride
    \/ AddManualHoliday
    \/ RemoveManualHoliday
    \/ IsTradingDay
    \/ GetHolidayInfo

Spec == Init /\ [][Next]_vars

(***************************************************************************)
(* Operations applied to inputs drawn at the start                         *)
(***************************************************************************)
\* a call that has been made and has not returned yet
Call(name, args) == [op |-> "call", name |-> name, args |-> args]

Calling(name) == last.op = "call" /\ last.name = name

CheckSettlementCalls(dates, offsets, clock) ==
    { Call("check_settlement", [request |-> r, current_utc |-> now]) :
          r \in { Request(d, mm[1], mm[2], TRUE, d * MinutesPerDay + o) :
                      d \in dates, mm \in {<<"HK", "JP">>, <<"JP", "HK">>},
                      o \in offsets }
                \cup { Request(d, mm[1], mm[2], FALSE, 0) :
                      d \in dates, mm \in {<<"HK", "JP">>, <<"JP", "HK">>} },
          now \in clock }

PairCalls(name, dates) ==
    { Call(name, [market_a |-> mm[1], market_b |-> mm[2], date |-> d]) :
          mm \in {<<"HK", "JP">>, <<"JP", "HK">>}, d \in dates }

\* SettlementEngine.check_settlement returns
ReturnCheckSettlement ==
    /\ Calling("check_settlement")
    /\ last' = [op |-> "check_settlement", request |-> last.args.request,
                current_utc |-> last.args.current_utc,
                result |-> check_settlement(last.args.request, last.args.current_utc)]
    /\ Unchanged_data

\* CalendarService.calculate_common_settlement_date returns
ReturnCalculateCommonSettlementDate ==
    /\ Calling("calculate_common_settlement_date")
    /\ last' = [op |-> "calculate_common_settlement_date",
                market_a |-> last.args.market_a, market_b |-> last.args.market_b,
                date |-> last.args.date,
                result |-> calculate_common_settlement_date(
                               last.args.market_a, last.args.market_b, last.args.date)]
    /\ Unchanged_data

\* CalendarService.calculate_settlement_date returns
ReturnCalculateSettlementDate ==
    /\ Calling("calculate_settlement_date")
    /\ last' = [op |-> "calculate_settlement_date", market |-> last.args.market,
                date |-> last.args.date, settlement_cycle |-> last.args.settlement_cycle,
                result |-> calculate_settlement_date(last.args.market, last.args.date,
                                                     last.args.settlement_cycle)]
    /\ Unchanged_data

\* CalendarService.get_trading_overlap_for_date returns
ReturnGetTradingOverlapForDate ==
    /\ Calling("get_trading_overlap_for_date")
    /\ last' = [op |-> "get_trading_overlap_for_date",
                market_a |-> last.args.market_a, market_b |-> last.args.market_b,
                date |-> last.args.date,
                result |-> get_trading_overlap_for_date(
                               last.args.market_a, last.args.market_b, last.args.date)]
    /\ Unchanged_data

(***************************************************************************)
(* The settlement engine over registries and calendars                     *)
(***************************************************************************)
\* calendars of the exchange-session adapter: a Monday holiday, a long closure
ExchangeCalendars ==
    { [m \in Markets |-> IF m = "HK" THEN hk ELSE jp] :
          hk \in (SUBSET HolidayDates) \cup {LongClosure}, jp \in SUBSET HolidayDates }

\* manual holidays of the calendars the engine uses
ManualHolidayTables ==
    { EmptyTable,
      Put(EmptyTable, "HK", 3, Holiday("Depository Closed", "special_closure",
                                       FALSE, TRUE, "manual")),
      Put(EmptyTable, "JP", 4, Holiday("Depository Closed", "special_closure",
                                       FALSE, TRUE, "manual")),
      Put(EmptyTable, "JP", 0, Holiday("Typhoon Signal 8", "special_closure",
                                       TRUE, TRUE, "manual")) }

\* registries: every pair of settlement cycles, Hong Kong with and without a cut-off
EngineRegistries ==
    { Registry(cycle, [CutOff EXCEPT !["HK"] = hk]) :
          cycle \in [Markets -> SettlementCycles], hk \in {CutOff["HK"], NoTime} }

InitEngine ==
    /\ markets \in EngineRegistries
    /\ exchange \in ExchangeCalendars
    /\ manual_holidays \in ManualHolidayTables
    /\ InitOverrideStore
    /\ last \in CheckSettlementCalls(TradeDates, ExecutionOffsets, ConsoleClock)
                \cup PairCalls("calculate_common_settlement_date", TradeDates)

NextEngine ==
    \/ ReturnCheckSettlement
    \/ ReturnCalculateCommonSettlementDate

SpecEngine == InitEngine /\ [][NextEngine]_vars

(***************************************************************************)
(* The settlement-date advance over calendars                              *)
(***************************************************************************)
CalendarHolidayDates == {3, 4, 7}

Calendars ==
    { [m \in Markets |-> IF m = "HK" THEN hk ELSE jp] :
          hk \in (SUBSET CalendarHolidayDates) \cup {LongClosure},
          jp \in SUBSET CalendarHolidayDates }

InitCalendar ==
    /\ markets = Registry([m \in Markets |-> 1], CutOff)
    /\ exchange \in Calendars
    /\ manual_holidays \in ManualHolidayTables
    /\ InitOverrideStore
    /\ last \in { Call("calculate_settlement_date",
                       [market |-> m, date |-> d, settlement_cycle |-> n]) :
                      m \in Markets, d \in QueryDates, n \in SettlementCycles }

NextCalendar == ReturnCalculateSettlementDate

SpecCalendar == InitCalendar /\ [][NextCalendar]_vars

(***************************************************************************)
(* Overlaps and deadlines over trading hours                               *)
(***************************************************************************)
\* instants of the trading hours: 00:00 to 05:00 UTC of the date, hour by hour
HoursGridUTC == {0, 60, 120, 180, 240, 300}

\* the wall-clock times of those instants in the market's timezone
HoursGrid(m) == { convert_from_utc(t, Timezone[m]) : t \in HoursGridUTC }

\* trading hours that satisfy the data-model invariant:
\* open < close, and open <= lunch.start < lunch.end <= close with a lunch break
TradingHours(m) ==
    { h \in [open : HoursGrid(m), close : HoursGrid(m),
             lunch_start : HoursGrid(m) \cup {NoTime},
             lunch_end : HoursGrid(m) \cup {NoTime}] :
          /\ h.open < h.close
          /\ (h.lunch_start = NoTime) = (h.lunch_end = NoTime)
          /\ h.lunch_start # NoTime =>
                 /\ h.open <= h.lunch_start
                 /\ h.lunch_start < h.lunch_end
                 /\ h.lunch_end <= h.close }

\* depository cut-offs of the registries: 11:00 local time, or none in Hong Kong
HoursCutOffs == { [m \in Markets |-> 660], [m \in Markets |-> IF m = "HK" THEN NoTime ELSE 660] }

HoursRegistries ==
    { [m \in Markets |->
          Market(Timezone[m], hk_jp[IF m = "HK" THEN 1 ELSE 2].open,
                 hk_jp[IF m = "HK" THEN 1 ELSE 2].close,
                 hk_jp[IF m = "HK" THEN 1 ELSE 2].lunch_start,
                 hk_jp[IF m = "HK" THEN 1 ELSE 2].lunch_end, 1, cut_off[m])] :
          hk_jp \in TradingHours("HK") \X TradingHours("JP"),
          cut_off \in HoursCutOffs }

ClockDates == {0}

InitHours ==
    /\ markets \in HoursRegistries
    /\ exchange = [m \in Markets |-> {}]
    /\ manual_holidays = EmptyTable
    /\ InitOverrideStore
    /\ last \in CheckSettlementCalls(ClockDates, {}, NowChoices)
                \cup PairCalls("get_trading_overlap_for_date", ClockDates)

NextHours ==
    \/ ReturnCheckSettlement
    \/ ReturnGetTradingOverlapForDate

SpecHours == InitHours /\ [][NextHours]_vars

(***************************************************************************)
(* The status classifier over its inputs                                   *)
(***************************************************************************)
\* a CutOffCheck of _check_cut_off_times
CutOffCheck(market_code, cut_off_time, is_before_cut_off, time_remaining) ==
    [market_code |-> market_code, cut_off_time |-> cut_off_time,
     is_before_cut_off |-> is_before_cut_off, time_remaining |-> time_remaining]

\* minutes left before a cut-off, around the at-risk threshold
RemainingChoices == {1, 59, 60, 61}

\* the checks _check_cut_off_times can return for a market
CutOffCheckChoices(m) ==
    { CutOffCheck(m, NoTime, TRUE, NoTime), CutOffCheck(m, CutOff[m], FALSE, NoTime) }
    \cup { CutOffCheck(m, CutOff[m], TRUE, r) : r \in RemainingChoices }

\* days_to_settle of a market, around the limit of three days
DaysChoices == {0, 1, 3, 4, 6}

ClassifierCalls ==
    { Call("_determine_status",
           [trade_date_valid |-> valid, cut_off_checks |-> checks,
            has_execution_time |-> checks # << >>,
            buy_days_to_settle |-> buy_days, sell_days_to_settle |-> sell_days]) :
          valid \in BOOLEAN,
          checks \in {<< >>} \cup { <<a, b>> : a \in CutOffCheckChoices("HK"),
                                              b \in CutOffCheckChoices("JP") },
          buy_days \in DaysChoices, sell_days \in DaysChoices }

\* SettlementEngine._determine_status returns
ReturnDetermineStatus ==
    /\ Calling("_determine_status")
    /\ last' = [op |-> "_determine_status", args |-> last.args,
                result |-> _determine_status(
                               last.args.trade_date_valid, last.args.cut_off_checks,
                               [days_to_settle |-> last.args.buy_days_to_settle],
                               [days_to_settle |-> last.args.sell_days_to_settle],
                               last.args.has_execution_time)]
    /\ Unchanged_data

InitClassifier ==
    /\ markets = Registry([m \in Markets |-> 1], CutOff)
    /\ exchange \in [Markets -> SUBSET HolidayDates]
    /\ manual_holidays = EmptyTable
    /\ InitOverrideStore
    /\ last \in ClassifierCalls
                \cup CheckSettlementCalls(TradeDates, ExecutionOffsets, ConsoleClock)

NextClassifier ==
    \/ ReturnDetermineStatus
    \/ ReturnCheckSettlement

SpecClassifier == InitClassifier /\ [][NextClassifier]_vars

(***************************************************************************)
(* Properties                                                              *)
(***************************************************************************)
\* the rule order of the status classifier, as the specification states it
FirstMatchingRule(trade_date_valid, cut_off_checks, buy_days, sell_days) ==
    IF ~trade_date_valid THEN "UNLIKELY"
    ELSE IF \E i \in DOMAIN cut_off_checks : cut_off_checks[i].is_before_cut_off = FALSE
    THEN "UNLIKELY"
    ELSE IF \E i \in DOMAIN cut_off_checks :
                /\ cut_off_checks[i].time_remaining # NoTime
                /\ 0 < cut_off_checks[i].time_remaining
                /\ cut_off_checks[i].time_remaining < 60
    THEN "AT_RISK"
    ELSE IF buy_days > 3 \/ sell_days > 3 THEN "AT_RISK"
    ELSE "LIKELY"

\* C1: _determine_status returns the first matching rule of: trade date invalid ->
\* UNLIKELY; a cut-off check with is_before = false -> UNLIKELY; a cut-off check with
\* 0 < time_remaining < 60 minutes -> AT_RISK; a market's days_to_settle > 3 ->
\* AT_RISK; otherwise LIKELY.  A check_settlement without an execution time makes no
\* cut-off checks, so its status follows from days_to_settle alone.
C1_StatusIsFirstMatchingRule ==
    /\ last.op = "_determine_status" =>
           last.result = FirstMatchingRule(last.args.trade_date_valid,
                                           last.args.cut_off_checks,
                                           last.args.buy_days_to_settle,
                                           last.args.sell_days_to_settle)
    /\ (last.op = "check_settlement" /\ last.result.trade_date_valid) =>
           /\ last.result.status =
                  FirstMatchingRule(TRUE, last.result.cut_off_checks,
                                    last.result.buy_days_to_settle,
                                    last.result.sell_days_to_settle)
           /\ ~last.request.has_execution_time =>
                  /\ last.result.cut_off_checks = << >>
                  /\ last.result.status =
                         FirstMatchingRule(TRUE, << >>, last.result.buy_days_to_settle,
                                           last.result.sell_days_to_settle)

\* the classifier answered AT_RISK for 59 minutes left with nothing else wrong
C1_Witness ==
    /\ last.op = "_determine_status"
    /\ last.args.trade_date_valid
    /\ last.args.cut_off_checks # << >>
    /\ \A i \in DOMAIN last.args.cut_off_checks :
           last.args.cut_off_checks[i].is_before_cut_off
    /\ last.args.cut_off_checks[1].time_remaining = 61
    /\ last.args.cut_off_checks[2].time_remaining = 59
    /\ last.args.buy_days_to_settle <= 3
    /\ last.args.sell_days_to_settle <= 3
    /\ last.result = "AT_RISK"

\* the result of the last check_settlement names these markets
LastCheckInvolves(m) ==
    last.op = "check_settlement"
    /\ (last.request.buy_market = m \/ last.request.sell_market = m)

\* C2: a check_settlement that returns LIKELY has a settlement date at least one
\* calendar day after the trade date, on which both markets are settlement days.
C2_LikelySettlesOnCommonDayAfterTrade ==
    (last.op = "check_settlement" /\ last.result.status = "LIKELY") =>
        /\ last.result.settlement_date >= last.request.trade_date + 1
        /\ is_settlement_day(last.request.buy_market, last.result.settlement_date)
        /\ is_settlement_day(last.request.sell_market, last.result.settlement_date)

\* two markets on a T+0 cycle: LIKELY with the settlement date equal to the trade date
C2_Counterexample ==
    /\ last.op = "check_settlement"
    /\ markets["HK"].settlement_cycle = 0
    /\ markets["JP"].settlement_cycle = 0
    /\ last.result.status = "LIKELY"
    /\ last.result.settlement_date = last.request.trade_date

\* C3: a check_settlement that returns UNLIKELY on a trade date that is not a trading
\* day in one of its markets has no settlement date and names a next viable trade date
\* strictly after the trade date that is a trading day in both markets.
C3_InvalidTradeDateNamesNextViable ==
    (/\ last.op = "check_settlement"
     /\ last.result.status = "UNLIKELY"
     /\ \/ ~is_trading_day(last.request.buy_market, last.request.trade_date)
        \/ ~is_trading_day(last.request.sell_market, last.request.trade_date)) =>
        /\ last.result.settlement_date = NoDate
        /\ \E i \in DOMAIN last.result.recommendations :
               LET next_viable == last.result.recommendations[i] IN
               /\ next_viable.text = "Next viable trade date"
               /\ next_viable.date # NoDate
               /\ next_viable.date > last.request.trade_date
               /\ is_trading_day(last.request.buy_market, next_viable.date)
               /\ is_trading_day(last.request.sell_market, next_viable.date)

\* a trade on a Monday that is a holiday in Hong Kong only is sent to a later day
C3_Witness ==
    /\ last.op = "check_settlement"
    /\ last.request.buy_market = "JP"
    /\ last.request.trade_date = 3
    /\ is_trading_day("JP", 3)
    /\ ~is_trading_day("HK", 3)
    /\ last.result.status = "UNLIKELY"
    /\ last.result.settlement_date = NoDate
    /\ \E i \in DOMAIN last.result.recommendations :
           last.result.recommendations[i].date > 3

\* some warning of the last result carries this name as a reason
WarningCarries(name) ==
    \E i \in DOMAIN last.result.warnings :
        \E j \in DOMAIN last.result.warnings[i].reasons :
            last.result.warnings[i].reasons[j].reason = name

\* C4: while the manual-override store holds a closure override for (M, D),
\* is_trading_day(M, D) is false, and a check_settlement with trade date D and M as
\* buy or sell market returns UNLIKELY with a warning carrying the override's name.
C4_ClosureOverrideBlocksTradeDate ==
    \A m \in Markets, d \in OverrideDates :
        has_closure_override(m, d) =>
            /\ ~HolidayDataManager_is_trading_day(m, d)
            /\ ~is_trading_day(m, d)
            /\ (LastCheckInvolves(m) /\ last.request.trade_date = d) =>
                   /\ last.result.status = "UNLIKELY"
                   /\ WarningCarries(get_override(m, d).name)

\* a closure override on a Monday for Hong Kong, and a later check of that Monday
\* with Hong Kong as a market that returns LIKELY
C4_Counterexample ==
    /\ has_closure_override("HK", 3)
    /\ LastCheckInvolves("HK")
    /\ last.request.trade_date = 3
    /\ last.result.status = "LIKELY"
    /\ ~WarningCarries(get_override("HK", 3).name)

\* the answer the claimed resolution gives: the override first, then the exchange
OverrideFirst(m, d) ==
    IF get_override(m, d).present
    THEN ~get_override(m, d).is_closure
    ELSE ExchangeCalendarSource_is_trading_day(m, d)

\* C5: is_trading_day of the Holiday Data Plane and of the Calendar Service resolve a
\* manual override first (closure gives false, force-open gives true), and return the
\* exchange-session adapter's answer when there is no override.
C5_IsTradingDayResolvesOverrideFirst ==
    last.op = "is_trading_day" =>
        /\ last.manager = OverrideFirst(last.market, last.date)
        /\ last.calendar = OverrideFirst(last.market, last.date)

\* a force-open override on a Monday the exchange reports as a non-session: the
\* Holiday Data Plane says trading day, the Calendar Service says not
C5_Counterexample ==
    /\ last.op = "is_trading_day"
    /\ get_override(last.market, last.date).present
    /\ ~get_override(last.market, last.date).is_closure
    /\ ~ExchangeCalendarSource_is_trading_day(last.market, last.date)
    /\ last.manager = TRUE
    /\ last.calendar = FALSE

\* the fact the claimed precedence selects, as <<present, name, source>>
FactByPrecedence(m, d) ==
    IF get_override(m, d).present
    THEN <<TRUE, get_override(m, d).name, "manual_override">>
    ELSE IF is_weekend(d)
    THEN <<TRUE, "Weekend", "weekend">>
    ELSE IF ~ExchangeCalendarSource_is_trading_day(m, d)
    THEN <<TRUE,
           IF get_holiday_name(m, d) # NoName THEN get_holiday_name(m, d)
           ELSE "Market Holiday",
           "exchange_calendar">>
    ELSE <<FALSE, NoName, "none">>

\* C6: holiday_info returns the fact chosen by precedence: a manual override (closure
\* or force-open) if one exists; else a WEEKEND fact on a Saturday or Sunday; else, on
\* a non-session, a fact of source EXCHANGE named by the public-holiday name or
\* "Market Holiday"; else no fact.
C6_HolidayInfoFollowsPrecedence ==
    last.op = "get_holiday_info" =>
        <<last.manager.present, last.manager.name, last.manager.source>>
            = FactByPrecedence(last.market, last.date)

\* a force-open override on a Saturday: the fact returned is the weekend, not the
\* override
C6_Counterexample ==
    /\ last.op = "get_holiday_info"
    /\ get_override(last.market, last.date).present
    /\ ~get_override(last.market, last.date).is_closure
    /\ is_weekend(last.date)
    /\ last.manager.source = "weekend"

\* the last date of the scans the properties take
Horizon == MaxTradeDate + LongClosureStart + LongClosureLen + CommonScanIterations

\* the first settlement day of m strictly after d
NextSettlementDay(m, d) ==
    CHOOSE s \in (d + 1)..Horizon :
        /\ is_settlement_day(m, s)
        /\ \A x \in (d + 1)..(s - 1) : ~is_settlement_day(m, x)

\* the n-th settlement day of m after d
RECURSIVE NthSettlementDay(_, _, _)
NthSettlementDay(m, d, n) ==
    IF n = 0 THEN d ELSE NextSettlementDay(m, NthSettlementDay(m, d, n - 1))

\* both markets are settlement days on d
BothSettle(a, b, d) == is_settlement_day(a, d) /\ is_settlement_day(b, d)

\* C7: calculate_common_settlement_date returns each market's own T+N settlement
\* date under that market's cycle and, when one of the 30 dates from the later of the
\* two is a settlement day in both markets, the earliest such date.
C7_CommonDateIsEarliestCommonSettlementDay ==
    last.op = "calculate_common_settlement_date" =>
        LET a == last.market_a
            b == last.market_b
            own_a == NthSettlementDay(a, last.date, markets[a].settlement_cycle)
            own_b == NthSettlementDay(b, last.date, markets[b].settlement_cycle)
            start == IF own_a >= own_b THEN own_a ELSE own_b
            scanned == start..(start + 29)
        IN
        /\ last.result.result_a.market_code = a
        /\ last.result.result_a.settlement_date = own_a
        /\ last.result.result_b.market_code = b
        /\ last.result.result_b.settlement_date = own_b
        /\ (\E d \in scanned : BothSettle(a, b, d)) =>
               /\ last.result.common_date \in scanned
               /\ BothSettle(a, b, last.result.common_date)
               /\ \A d \in start..(last.result.common_date - 1) : ~BothSettle(a, b, d)

\* the later of the two dates is not a settlement day of the other market, and the
\* common date is rolled forward past it
C7_Witness ==
    /\ last.op = "calculate_common_settlement_date"
    /\ last.result.result_a.settlement_date > last.result.result_b.settlement_date
    /\ ~is_settlement_day(last.market_b, last.result.result_a.settlement_date)
    /\ last.result.common_date > last.result.result_a.settlement_date
    /\ BothSettle(last.market_a, last.market_b, last.result.common_date)

\* C8: calculate_settlement_date(m, d, 0) returns d, and calculate_settlement_date(m,
\* d, n + 1) returns the first settlement day strictly after the date returned for n.
C8_SettlementDateAdvancesBySettlementDays ==
    last.op = "calculate_settlement_date" =>
        IF last.settlement_cycle = 0
        THEN last.result.settlement_date = last.date
        ELSE last.result.settlement_date =
                 NextSettlementDay(last.market,
                     calculate_settlement_date(last.market, last.date,
                                               last.settlement_cycle - 1).settlement_date)

\* a T+2 from a Friday over a weekend and a Monday holiday
C8_Witness ==
    /\ last.op = "calculate_settlement_date"
    /\ last.date = 0
    /\ last.settlement_cycle = 2
    /\ ~is_settlement_day(last.market, 3)
    /\ Len(last.result.skipped_days) = 3
    /\ last.result.settlement_date = 5

C10_DeadlinesSortedAndPassedHaveNoText ==
    last.op = "check_settlement" =>
        /\ \A i \in 1..(Len(last.result.deadlines) - 1) :
               last.result.deadlines[i].deadline_time
                   <= last.result.deadlines[i + 1].deadline_time
        /\ \A i \in DOMAIN last.result.deadlines :
               last.result.deadlines[i].is_passed
                   = ~last.result.deadlines[i].time_remaining.present

\* four deadlines, the sell market's first, some passed and some still ahead
C10_Witness ==
    /\ last.op = "check_settlement"
    /\ Len(last.result.deadlines) = 4
    /\ last.result.deadlines[1].market_code = last.request.sell_market
    /\ last.result.deadlines[1].is_passed
    /\ ~last.result.deadlines[4].is_passed
    /\ last.result.deadlines[4].time_remaining.form = "Xh Ym"

\* the number of deadlines of the last result for market m of the given type
DeadlineCount(m, deadline_type) ==
    Cardinality({ i \in DOMAIN last.result.deadlines :
                      /\ last.result.deadlines[i].market_code = m
                      /\ last.result.deadlines[i].deadline_type = deadline_type })

\* the last check_settlement was on a trade date that trades in both of its markets
LastCheckOnValidTradeDate ==
    /\ last.op = "check_settlement"
    /\ is_trading_day(last.request.buy_market, last.request.trade_date)
    /\ is_trading_day(last.request.sell_market, last.request.trade_date)

\* C11: a check_settlement result on a valid trade date carries, for each of its two
\* markets, one market-close deadline, and one depository cut-off deadline when the
\* market has a cut-off, whatever its status is.
C11_EveryResultCarriesDeadlines ==
    LastCheckOnValidTradeDate =>
        \A m \in {last.request.buy_market, last.request.sell_market} :
            /\ DeadlineCount(m, "market_close") = 1
            /\ markets[m].depository_cut_off # NoTime =>
                   DeadlineCount(m, "depository_cut_off") = 1

\* an execution past a cut-off on a valid trade date: UNLIKELY with no deadline at all
C11_Counterexample ==
    /\ LastCheckOnValidTradeDate
    /\ last.request.has_execution_time
    /\ last.result.status = "UNLIKELY"
    /\ \E i \in DOMAIN last.result.cut_off_checks :
           ~last.result.cut_off_checks[i].is_before_cut_off
    /\ last.result.deadlines = << >>

\* the wall-clock time of the last request's execution instant in market m
ExecutionLocalTime(m) ==
    (last.request.execution_time + markets[m].timezone) % 1440

\* the last request was executed exactly at the depository cut-off of market m
ExecutedAtCutOff(m) ==
    /\ last.request.has_execution_time
    /\ (last.request.buy_market = m \/ last.request.sell_market = m)
    /\ markets[m].depository_cut_off # NoTime
    /\ ExecutionLocalTime(m) = markets[m].depository_cut_off

\* C12: an execution whose local time in a market equals that market's depository
\* cut-off is past the cut-off: on a valid trade date check_settlement returns
\* UNLIKELY with a warning naming that market's cut-off.
C12_ExecutionAtCutOffIsPast ==
    \A m \in Markets :
        (LastCheckOnValidTradeDate /\ ExecutedAtCutOff(m)) =>
            /\ \E i \in DOMAIN last.result.cut_off_checks :
                   /\ last.result.cut_off_checks[i].market_code = m
                   /\ last.result.cut_off_checks[i].is_before_cut_off = FALSE
            /\ last.result.status = "UNLIKELY"
            /\ \E i \in DOMAIN last.result.warnings :
                   /\ last.result.warnings[i].kind = "past_cut_off"
                   /\ last.result.warnings[i].market = m
                   /\ last.result.warnings[i].cut_off_time = markets[m].depository_cut_off

\* an execution at 14:00 in Tokyo, before the Hong Kong cut-off, returned UNLIKELY
C12_Witness ==
    /\ LastCheckOnValidTradeDate
    /\ ExecutedAtCutOff("JP")
    /\ markets["HK"].depository_cut_off # NoTime
    /\ ExecutionLocalTime("HK") < markets["HK"].depository_cut_off
    /\ last.result.status = "UNLIKELY"
    /\ Len(last.result.warnings) = 1

\* the sessions of market m on date d as <<start, end>> instants
SessionsOf(m, d) ==
    LET at(t) == d * 1440 + t - markets[m].timezone IN
    IF markets[m].lunch_start # NoTime /\ markets[m].lunch_end # NoTime
    THEN { <<at(markets[m].open), at(markets[m].lunch_start)>>,
           <<at(markets[m].lunch_end), at(markets[m].close)>> }
    ELSE { <<at(markets[m].open), at(markets[m].close)>> }

\* the intersections of half-open sessions [start, end) that are not empty
HalfOpenIntersections(a, b, d) ==
    { <<IF sa[1] >= sb[1] THEN sa[1] ELSE sb[1], IF sa[2] <= sb[2] THEN sa[2] ELSE sb[2]>> :
          <<sa, sb>> \in { p \in SessionsOf(a, d) \X SessionsOf(b, d) :
                              /\ p[1][1] < p[2][2] /\ p[2][1] < p[1][2]
                              /\ p[1][1] < p[1][2] /\ p[2][1] < p[2][2] } }

\* a session of a ends at the instant a session of b begins, or the other way round
SessionsTouch(a, b, d) ==
    \E sa \in SessionsOf(a, d), sb \in SessionsOf(b, d) :
        /\ sa[1] < sa[2] /\ sb[1] < sb[2]
        /\ (sa[2] = sb[1] \/ sb[2] = sa[1])

\* C13: sessions are half-open intervals: the windows returned are the non-empty
\* intersections of a session of one market with a session of the other, so a session
\* that ends at the instant another begins yields no window, and every window has
\* start_utc < end_utc.
C13_WindowsAreHalfOpenIntersections ==
    (last.op = "get_trading_overlap_for_date" /\ ~last.result.is_none) =>
        /\ \A i \in DOMAIN last.result.windows :
               last.result.windows[i].start_utc < last.result.windows[i].end_utc
        /\ { <<last.result.windows[i].start_utc, last.result.windows[i].end_utc>> :
                 i \in DOMAIN last.result.windows }
               = HalfOpenIntersections(last.market_a, last.market_b, last.date)
        /\ Len(last.result.windows)
               = Cardinality(HalfOpenIntersections(last.market_a, last.market_b, last.date))

\* a morning session ends when the other market's session begins, and the only window
\* returned comes from another pair of sessions
C13_Witness ==
    /\ last.op = "get_trading_overlap_for_date"
    /\ SessionsTouch(last.market_a, last.market_b, last.date)
    /\ Len(last.result.windows) = 1

(***************************************************************************)
(* The manual-override store step by step: mutate the table, then          *)
(* save_overrides builds the list, opens the file for writing, dumps it    *)
(***************************************************************************)
\* what a store operation left behind: its outcome, the table before its mutation,
\* and the content of the last file that was written to its end
StoreEvent(op, t, m, d, outcome, before, committed) ==
    [op |-> op, thread |-> t, market |-> m, date |-> d, outcome |-> outcome,
     before |-> before, committed |-> committed]

\* a thread inside add_override or remove_override
InStore(pc, op, m, d, before, data) ==
    [pc |-> pc, op |-> op, market |-> m, date |-> d, before |-> before, data |-> data]

\* ManualOverrideSource.add_override: the assignment into the table
BeginAddOverride(t, dates) ==
    \E m \in Markets, d \in dates, override \in OverrideChoices :
        /\ procs[t].pc = "idle"
        /\ d \in DOMAIN overrides[m] \/ Entries(overrides) < MaxOverrides
        /\ overrides' = Put(overrides, m, d, override)
        /\ procs' = [procs EXCEPT ![t] = InStore("save", "add_override", m, d, overrides, {})]
        /\ UNCHANGED <<markets, exchange, public_holidays, manual_holidays, blob, last>>

\* ManualOverrideSource.remove_override: the del from the table, or return False
BeginRemoveOverride(t, dates) ==
    \E m \in Markets, d \in dates :
        /\ procs[t].pc = "idle"
        /\ IF d \in DOMAIN overrides[m]
           THEN /\ overrides' = Delete(overrides, m, d)
                /\ procs' = [procs EXCEPT
                                ![t] = InStore("save", "remove_override", m, d, overrides, {})]
                /\ UNCHANGED last
           ELSE /\ last' = StoreEvent("remove_override", t, m, d, "returned False",
                                      overrides, last.committed)
                /\ UNCHANGED <<overrides, procs>>
        /\ UNCHANGED <<markets, exchange, public_holidays, manual_holidays, blob>>

\* save_overrides: the list of dicts is built from the table
BuildList(t) ==
    /\ procs[t].pc = "save"
    /\ procs' = [procs EXCEPT ![t].pc = "open", ![t].data = all_overrides(overrides)]
    /\ UNCHANGED <<markets, exchange, public_holidays, manual_holidays, overrides, blob, last>>

\* save_overrides: open(file, "w") truncates the file
OpenFile(t) ==
    /\ procs[t].pc = "open"
    /\ blob' = TornFile
    /\ procs' = [procs EXCEPT ![t].pc = "dump"]
    /\ UNCHANGED <<markets, exchange, public_holidays, manual_holidays, overrides, last>>

\* save_overrides: open(file, "w") raises; the exception leaves add/remove_override
OpenFails(t) ==
    /\ procs[t].pc = "open"
    /\ procs' = [procs EXCEPT ![t] = Idle]
    /\ last' = StoreEvent(procs[t].op, t, procs[t].market, procs[t].date, "raised",
                          procs[t].before, last.committed)
    /\ UNCHANGED <<markets, exchange, public_holidays, manual_holidays, overrides, blob>>

\* save_overrides: json.dump writes the document and the call returns
Dump(t) ==
    /\ procs[t].pc = "dump"
    /\ blob' = File(procs[t].data)
    /\ procs' = [procs EXCEPT ![t] = Idle]
    /\ last' = StoreEvent(procs[t].op, t, procs[t].market, procs[t].date, "returned",
                          procs[t].before, procs[t].data)
    /\ UNCHANGED <<markets, exchange, public_holidays, manual_holidays, overrides>>

\* save_overrides: json.dump raises part-way; the exception leaves add/remove_override
DumpFails(t) ==
    /\ procs[t].pc = "dump"
    /\ blob' = TornFile
    /\ procs' = [procs EXCEPT ![t] = Idle]
    /\ last' = StoreEvent(procs[t].op, t, procs[t].market, procs[t].date, "raised",
                          procs[t].before, last.committed)
    /\ UNCHANGED <<markets, exchange, public_holidays, manual_holidays, overrides>>

\* the process is killed while a thread is inside save_overrides
Crash ==
    /\ \E t \in Threads : procs[t].pc \in {"save", "open", "dump"}
    /\ procs' = [t \in Threads |-> [pc |-> "dead"]]
    /\ overrides' = EmptyTable
    /\ last' = StoreEvent("crash", "", "", NoDate, "killed", EmptyTable, last.committed)
    /\ UNCHANGED <<markets, exchange, public_holidays, manual_holidays, blob>>

\* the next start of the process: ManualOverrideSource.__init__ loads the file
Startup ==
    /\ \A t \in Threads : procs[t].pc = "dead"
    /\ overrides' = _load_overrides(blob)
    /\ procs' = [t \in Threads |-> Idle]
    /\ last' = StoreEvent("startup", "", "", NoDate, "loaded", EmptyTable, last.committed)
    /\ UNCHANGED <<markets, exchange, public_holidays, manual_holidays, blob>>

InitStore ==
    /\ markets = Registry([m \in Markets |-> 1], CutOff)
    /\ exchange \in [Markets -> SUBSET HolidayDates]
    /\ manual_holidays = EmptyTable
    /\ InitOverrideStore
    /\ last = StoreEvent("init", "", "", NoDate, "loaded", EmptyTable, {})

\* one thread, with write failures and kills
NextStore ==
    \/ BeginAddOverride("t1", OverrideDates)
    \/ BeginRemoveOverride("t1", OverrideDates)
    \/ BuildList("t1")
    \/ OpenFile("t1")
    \/ OpenFails("t1")
    \/ Dump("t1")
    \/ DumpFails("t1")
    \/ Crash
    \/ Startup

SpecStore == InitStore /\ [][NextStore]_vars

\* C14: when the blob write fails during add_override or remove_override the caller
\* sees the failure and the in-memory table is the table from before the mutation, so
\* get_override and is_trading_day answer as they did before it.
C14_FailedWriteRollsBackTable ==
    (last.op \in {"add_override", "remove_override"} /\ last.outcome = "raised"
         /\ procs["t1"].pc = "idle") =>
        /\ overrides = last.before
        /\ get_override(last.market, last.date)
               = (IF last.date \in DOMAIN last.before[last.market]
                  THEN last.before[last.market][last.date] ELSE NoOverride)

\* add_override raised on the write and the new override is still in the table
C14_Counterexample ==
    /\ last.op = "add_override"
    /\ last.outcome = "raised"
    /\ procs["t1"].pc = "idle"
    /\ last.date \notin DOMAIN last.before[last.market]
    /\ get_override(last.market, last.date).present
    /\ get_override(last.market, last.date).is_closure
    /\ ~HolidayDataManager_is_trading_day(last.market, last.date)

\* the table a complete file content decodes to
TableOf(data) ==
    [m \in Markets |->
        [d \in { x.date : x \in { y \in data : y.market_code = m } } |->
            LET x == CHOOSE y \in data : y.market_code = m /\ y.date = d IN
            [present |-> TRUE, name |-> x.name, reason |-> x.reason,
             is_closure |-> x.is_closure, affects_trading |-> x.affects_trading,
             affects_settlement |-> x.affects_settlement]]]

\* C15: the blob is rewritten atomically: whenever save_overrides is interrupted the
\* file holds the complete previous or the complete new content, so the table loaded
\* at the next start is the table of the last file written to its end.
C15_BlobIsRewrittenAtomically ==
    /\ blob.complete
    /\ last.op = "startup" => overrides = TableOf(last.committed)

\* a kill between open and dump: the file is torn and the next start loads an empty
\* table although overrides had been saved
C15_Counterexample ==
    /\ last.op = "startup"
    /\ ~blob.complete
    /\ last.committed # {}
    /\ overrides = EmptyTable

(***************************************************************************)
(* Two threads in the manual-override store, no failures                   *)
(***************************************************************************)
\* the date the two threads add and remove overrides for: a Monday
ConcurrentDates == {3}

InitConcurrent ==
    /\ markets = Registry([m \in Markets |-> 1], CutOff)
    /\ exchange = [m \in Markets |-> {}]
    /\ manual_holidays = EmptyTable
    /\ InitOverrideStore
    /\ last = StoreEvent("init", "", "", NoDate, "loaded", EmptyTable, {})

NextConcurrent ==
    \E t \in Threads :
        \/ BeginAddOverride(t, ConcurrentDates)
        \/ BeginRemoveOverride(t, ConcurrentDates)
        \/ BuildList(t)
        \/ OpenFile(t)
        \/ Dump(t)

SpecConcurrent == InitConcurrent /\ [][NextConcurrent]_vars

\* no thread is inside add_override or remove_override
AllMutationsCompleted == \A t \in Threads : procs[t].pc = "idle"

\* C16: add_override and remove_override are exclusive critical sections that include
\* the blob rewrite: once every concurrent mutation has completed, the persisted blob
\* holds exactly the overrides of the in-memory table.
C16_BlobMatchesTableAfterMutations ==
    AllMutationsCompleted =>
        /\ blob.complete
        /\ TableOf(blob.overrides) = overrides

\* two add_override calls have returned and the blob lacks an override of the table
C16_Counterexample ==
    /\ AllMutationsCompleted
    /\ last.op = "add_override"
    /\ last.outcome = "returned"
    /\ blob.complete
    /\ \E m \in Markets : \E d \in DOMAIN overrides[m] :
           \A x \in blob.overrides : ~(x.market_code = m /\ x.date = d)


(***************************************************************************)
(* check_settlement step by step, beside a thread that adds and removes    *)
(* manual holidays                                                         *)
(***************************************************************************)
\* a thread inside check_settlement, after step 1
InCheck(request, trade_date_validation) ==
    [pc |-> "validated", request |-> request,
     trade_date_validation |-> trade_date_validation]

\* trade dates of the checks: a Friday and a Monday
RaceDates == {0, 3}

\* SettlementEngine.check_settlement: the markets are looked up and step 1 validates
\* the trade date against the calendars as they are now
ValidateTradeDate(t) ==
    \E trade_date \in RaceDates, mm \in {<<"HK", "JP">>, <<"JP", "HK">>},
       has_execution_time \in BOOLEAN :
        LET request == Request(trade_date, mm[1], mm[2], has_execution_time,
                               IF has_execution_time
                               THEN trade_date * MinutesPerDay + 60 ELSE 0)
        IN
        /\ procs[t].pc = "idle"
        /\ procs' = [procs EXCEPT
                        ![t] = InCheck(request,
                                   _validate_trade_date(trade_date, mm[1], mm[2]))]
        /\ UNCHANGED <<markets, exchange, public_holidays, manual_holidays, overrides,
                       blob, last>>

\* SettlementEngine.check_settlement: the steps after the validation read the
\* calendars as they are now and the call returns
CompleteCheckSettlement(t) ==
    /\ procs[t].pc = "validated"
    /\ last' = [op |-> "check_settlement", request |-> procs[t].request,
                current_utc |-> 0,
                result |->
                    IF procs[t].trade_date_validation.valid
                    THEN check_settlement_valid_date(procs[t].request, 0,
                             procs[t].trade_date_validation)
                    ELSE check_settlement_invalid_date(procs[t].request,
                             procs[t].trade_date_validation)]
    /\ procs' = [procs EXCEPT ![t] = Idle]
    /\ UNCHANGED <<markets, exchange, public_holidays, manual_holidays, overrides, blob>>

InitRace ==
    /\ markets \in { Registry(cycle, CutOff) : cycle \in [Markets -> {1, 2}] }
    /\ exchange = [m \in Markets |-> {}]
    /\ manual_holidays = EmptyTable
    /\ InitOverrideStore
    /\ last = [op |-> "init"]

NextRace ==
    \/ ValidateTradeDate("t1")
    \/ CompleteCheckSettlement("t1")
    \/ AddManualHoliday
    \/ RemoveManualHoliday

SpecRace == InitRace /\ [][NextRace]_vars

\* C17: a check_settlement that runs while manual holidays are added or removed
\* observes one table for the whole check: the trade date was found valid exactly if
\* the details say both markets trade on it, so a LIKELY or AT_RISK result never
\* carries a details flag saying a market is closed on the trade date.
C17_CheckObservesOneTable ==
    (last.op = "check_settlement" /\ ~last.result.raised) =>
        LET open_in_details ==
                /\ last.result.details.trade_date_buy_market.is_trading_day
                /\ last.result.details.trade_date_sell_market.is_trading_day
        IN
        /\ last.result.trade_date_valid = open_in_details
        /\ last.result.status \in {"LIKELY", "AT_RISK"} => open_in_details

\* a LIKELY result whose details say the buy market does not trade on the trade date
C17_Counterexample ==
    /\ last.op = "check_settlement"
    /\ last.result.status = "LIKELY"
    /\ last.result.settlement_date # NoDate
    /\ ~last.result.details.trade_date_buy_market.is_trading_day


(***************************************************************************)
(* check_settlement for market codes the registry does not hold            *)
(***************************************************************************)
\* codes that are in no registry
UnknownCodes == {"XX", "ZZ"}

\* requests with an unknown buy market, an unknown sell market, or both
UnknownMarketCalls ==
    { Call("check_settlement", [request |-> r, current_utc |-> 0]) :
          r \in { Request(d, mm[1], mm[2], e, IF e THEN d * MinutesPerDay + 60 ELSE 0) :
                      d \in TradeDates, e \in BOOLEAN,
                      mm \in { <<a, b>> \in (Markets \cup UnknownCodes)
                                            \X (Markets \cup UnknownCodes) :
                                   a # b /\ {a, b} \cap UnknownCodes # {} } } }

InitUnknownMarket ==
    /\ markets \in EngineRegistries
    /\ exchange \in ExchangeCalendars
    /\ manual_holidays = EmptyTable
    /\ InitOverrideStore
    /\ last \in UnknownMarketCalls
                \cup CheckSettlementCalls(TradeDates, ConsoleExecutionOffsets, ConsoleClock)

NextUnknownMarket == ReturnCheckSettlement

SpecUnknownMarket == InitUnknownMarket /\ [][NextUnknownMarket]_vars

\* the check was made with a buy or sell market that the registry does not hold
LastCheckHasUnknownMarket ==
    /\ last.op = "check_settlement"
    /\ {last.request.buy_market, last.request.sell_market} \ DOMAIN markets # {}

\* C18: check_settlement with an unknown buy or sell market code does not raise: the
\* result is UNLIKELY, has no settlement date, has the trade date of the request, and
\* its message names an unknown code of the request; with known markets the message
\* is never the unknown-market message.
C18_UnknownMarketGivesUnlikely ==
    /\ LastCheckHasUnknownMarket =>
           /\ ~last.result.raised
           /\ last.result.status = "UNLIKELY"
           /\ last.result.settlement_date = NoDate
           /\ last.result.trade_date = last.request.trade_date
           /\ last.result.message.kind = "unknown_market"
           /\ last.result.message.error.code
                  \in {last.request.buy_market, last.request.sell_market}
                          \ DOMAIN markets
    /\ (last.op = "check_settlement" /\ ~LastCheckHasUnknownMarket
            /\ last.result.status = "UNLIKELY") =>
           last.result.message.kind # "unknown_market"

\* the buy market is known, the sell market is not, and the result names the sell market
C18_Witness ==
    /\ LastCheckHasUnknownMarket
    /\ last.request.buy_market \in DOMAIN markets
    /\ last.result.status = "UNLIKELY"
    /\ last.result.message.error.code = last.request.sell_market
    /\ last.request.has_execution_time


(***************************************************************************)
(* SpecialCasesManager (data/special_cases.py), for the dates of 2026;     *)
(* date 0 is Friday 3 July 2026                                            *)
(***************************************************************************)
\* the first days of the months of 2026
MonthStarts2026 == <<0 - 183, 0 - 152, 0 - 124, 0 - 93, 0 - 63, 0 - 32, 0 - 2,
                     29, 60, 90, 121, 151>>

\* date.month
month(d) == Cardinality({ i \in DOMAIN MonthStarts2026 : MonthStarts2026[i] <= d })

\* LUNAR_NEW_YEAR_DATA[2026]: 17 February, and the closures of each market
LunarNewYear2026 == 0 - 136
LunarNewYearClosures2026 == [m \in Markets |-> IF m = "HK" THEN (0 - 136)..(0 - 134) ELSE {}]

\* is_lunar_new_year_period
is_lunar_new_year_period(d) == LunarNewYear2026 - 7 <= d /\ d <= LunarNewYear2026 + 14

\* SpecialCasesManager._is_typhoon_season
_is_typhoon_season(d) == 6 <= month(d) /\ month(d) <= 10

\* get_known_half_days for 2026: Hong Kong's Christmas Eve, Lunar New Year's Eve and
\* New Year's Eve, none of them on a weekend; the patterns of Japan give no date
get_known_half_days(m) ==
    IF m = "HK" THEN { d \in {174, LunarNewYear2026 - 1, 181} : ~is_weekend(d) } ELSE {}

\* SpecialCasesManager._check_half_day
_check_half_day(m, d) == d \in get_known_half_days(m)

\* a warning of the advisor; the cross-market list prefixes it with the market
AdvisorWarning(kind, authority, closure_days, prefix) ==
    [kind |-> kind, authority |-> authority, closure_days |-> closure_days,
     prefix |-> prefix]

\* SpecialCasesManager.check_special_conditions
check_special_conditions(m, d) ==
    LET typhoon == _is_typhoon_season(d) /\ m \in {"HK", "TW"}
        lunar == is_lunar_new_year_period(d) /\ LunarNewYearClosures2026[m] # {}
        half_day == _check_half_day(m, d)
    IN
    [is_typhoon_season |-> _is_typhoon_season(d),
     is_lunar_new_year_period |-> is_lunar_new_year_period(d),
     is_half_day |-> half_day,
     warnings |->
         (IF typhoon
          THEN << AdvisorWarning("typhoon_season", "Hong Kong Observatory", 0, NoName) >>
          ELSE << >>)
         \o (IF lunar
             THEN << AdvisorWarning("lunar_new_year", NoName,
                                    Cardinality(LunarNewYearClosures2026[m]), NoName) >>
             ELSE << >>)
         \o (IF half_day
             THEN << AdvisorWarning("half_day", NoName, 0, NoName) >> ELSE << >>),
     recommendations |->
         (IF typhoon
          THEN << Recommendation(
                      "Consider settlement buffer for potential unplanned closures",
                      NoDate) >>
          ELSE << >>)
         \o (IF lunar
             THEN << Recommendation(
                         "Plan trades to settle before or well after LNY period",
                         NoDate) >>
             ELSE << >>)
         \o (IF half_day
             THEN << Recommendation("Complete trades before market close", NoDate) >>
             ELSE << >>)]

\* SpecialCasesManager.get_cross_market_warnings
get_cross_market_warnings(market_a, market_b, trade_date) ==
    LET prefixed(m) ==
            LET w == check_special_conditions(m, trade_date).warnings IN
            [i \in DOMAIN w |-> [w[i] EXCEPT !.prefix = m]]
    IN
    prefixed(market_a) \o prefixed(market_b)
    \o (IF {market_a, market_b} \cap {"HK", "CN"} # {}
           /\ is_lunar_new_year_period(trade_date)
        THEN << AdvisorWarning("stock_connect", NoName, 0, "HK-CN") >>
        ELSE << >>)

\* the elements of a list
Elements(list) == { list[i] : i \in DOMAIN list }

\* no two entries of the list are equal
NoDuplicates(list) == Cardinality(Elements(list)) = Len(list)

\* C19: the warnings and recommendations of a check_settlement result include the
\* advisor's warnings and recommendations for both markets on the trade date and its
\* cross-market warnings, and neither list holds two equal entries.
C19_ResultIncludesAdvisorOutput ==
    (last.op = "check_settlement" /\ ~last.result.raised) =>
        LET request == last.request IN
        /\ \A m \in {request.buy_market, request.sell_market} :
               /\ Elements(check_special_conditions(m, request.trade_date).warnings)
                      \subseteq Elements(last.result.warnings)
               /\ Elements(check_special_conditions(m, request.trade_date).recommendations)
                      \subseteq Elements(last.result.recommendations)
        /\ Elements(get_cross_market_warnings(request.buy_market, request.sell_market,
                                              request.trade_date))
               \subseteq Elements(last.result.warnings)
        /\ NoDuplicates(last.result.warnings)
        /\ NoDuplicates(last.result.recommendations)

\* a LIKELY result for Hong Kong in July: the advisor warns of the typhoon season and
\* the result has no warning at all
C19_Counterexample ==
    /\ last.op = "check_settlement"
    /\ last.result.status = "LIKELY"
    /\ last.request.buy_market = "HK"
    /\ check_special_conditions("HK", last.request.trade_date).warnings # << >>
    /\ get_cross_market_warnings("HK", last.request.sell_market,
                                 last.request.trade_date) # << >>
    /\ last.result.warnings = << >>


(***************************************************************************)
(* MarketRepository._load_markets and MarketDataValidator over market      *)
(* configuration blobs                                                     *)
(***************************************************************************)
MaxRecords == 2

\* a market record of the configuration blob
MarketRecord(code, hours, cycle) ==
    [code |-> code, open |-> hours.open, close |-> hours.close,
     lunch_start |-> hours.lunch_start, lunch_end |-> hours.lunch_end,
     settlement_cycle |-> cycle]

\* codes of the records: two markets, one of them also in lower case, and a code of
\* three letters
RecordCodes == {"HK", "JP", "hk", "HKG"}

\* hours of the records: well-formed with and without a lunch break, close before
\* open, a lunch break that starts before the open, a lunch break that ends before
\* it starts
RecordHours ==
    { [open |-> 570, close |-> 960, lunch_start |-> 720, lunch_end |-> 780],
      [open |-> 540, close |-> 900, lunch_start |-> NoTime, lunch_end |-> NoTime],
      [open |-> 960, close |-> 570, lunch_start |-> NoTime, lunch_end |-> NoTime],
      [open |-> 570, close |-> 960, lunch_start |-> 500, lunch_end |-> 780],
      [open |-> 570, close |-> 960, lunch_start |-> 780, lunch_end |-> 720] }

\* settlement cycles of the records: T+1 and one above the limit
RecordCycles == {1, MaxSettlementCycle + 1}

Records ==
    { MarketRecord(code, hours, cycle) :
          code \in RecordCodes, hours \in RecordHours, cycle \in RecordCycles }

\* the blobs: lists of one to MaxRecords records
Blobs == UNION { [1..n -> Records] : n \in 1..MaxRecords }

\* str.upper on the codes of the records
upper(code) == IF code = "hk" THEN "HK" ELSE code

\* Market.model_validate raises: the code is not of 2 characters, or the settlement
\* cycle is outside 0..5
model_validate_raises(record) ==
    \/ Len(upper(record.code)) # 2
    \/ record.settlement_cycle < 0
    \/ record.settlement_cycle > MaxSettlementCycle

\* Market.model_validate
model_validate(record) ==
    [code |-> upper(record.code),
     market |-> Market(Timezone["HK"], record.open, record.close, record.lunch_start,
                       record.lunch_end, record.settlement_cycle, NoTime)]

NoMarkets == [code \in {} |-> code]

\* the loop of MarketRepository._load_markets from record i on
RECURSIVE load_loop(_, _, _)
load_loop(records, i, _markets) ==
    IF i > Len(records) THEN [raised |-> FALSE, markets |-> _markets]
    ELSE IF model_validate_raises(records[i]) THEN [raised |-> TRUE, markets |-> NoMarkets]
    ELSE LET validated == model_validate(records[i]) IN
         load_loop(records, i + 1,
                   [code \in DOMAIN _markets \cup {validated.code} |->
                       IF code = validated.code THEN validated.market
                       ELSE _markets[code]])

\* MarketRepository._load_markets: the registry, or the constructor raises
_load_markets(records) == load_loop(records, 1, NoMarkets)

\* MarketDataValidator._validate_market: the number of errors of record i
_validate_market(records, i) ==
    (IF \E j \in 1..(i - 1) : records[j].code = records[i].code THEN 1 ELSE 0)
    + (IF records[i].settlement_cycle < 0
          \/ records[i].settlement_cycle > MaxSettlementCycle THEN 1 ELSE 0)

\* MarketDataValidator.validate: is_valid
validate(records) == \A i \in DOMAIN records : _validate_market(records, i) = 0

\* MarketRepository.__init__ returns or raises
ReturnLoadMarkets ==
    /\ Calling("_load_markets")
    /\ markets' = _load_markets(last.args.records).markets
    /\ last' = [op |-> "_load_markets", records |-> last.args.records,
                raised |-> _load_markets(last.args.records).raised]
    /\ UNCHANGED <<exchange, public_holidays, manual_holidays, overrides, blob, procs>>

\* MarketDataValidator.validate returns
ReturnValidate ==
    /\ Calling("validate")
    /\ last' = [op |-> "validate", records |-> last.args.records,
                is_valid |-> validate(last.args.records)]
    /\ Unchanged_data

InitRegistry ==
    /\ markets = NoMarkets
    /\ exchange = [m \in Markets |-> {}]
    /\ manual_holidays = EmptyTable
    /\ InitOverrideStore
    /\ last \in { Call(name, [records |-> records]) :
                      name \in {"_load_markets", "validate"}, records \in Blobs }

NextRegistry ==
    \/ ReturnLoadMarkets
    \/ ReturnValidate

SpecRegistry == InitRegistry /\ [][NextRegistry]_vars

\* the data-model invariants of a market's hours and settlement cycle
WellFormedMarket(market) ==
    /\ market.open < market.close
    /\ (market.lunch_start = NoTime) = (market.lunch_end = NoTime)
    /\ market.lunch_start # NoTime =>
           /\ market.open <= market.lunch_start
           /\ market.lunch_start < market.lunch_end
           /\ market.lunch_end <= market.close
    /\ market.settlement_cycle \in 0..MaxSettlementCycle

\* the blob holds a record that breaks an invariant, or two records of one code
BlobViolatesInvariants(records) ==
    \/ \E i \in DOMAIN records :
           \/ Len(upper(records[i].code)) # 2
           \/ ~WellFormedMarket(records[i])
    \/ \E i, j \in DOMAIN records :
           i # j /\ upper(records[i].code) = upper(records[j].code)

\* C20: every market the registry exposes after initialization satisfies the
\* data-model invariants, and loading a blob that violates any of them, two records
\* with the same code included, fails startup and exposes no market at all.
C20_RegistryExposesOnlyWellFormedMarkets ==
    last.op = "_load_markets" =>
        /\ \A code \in DOMAIN markets :
               Len(code) = 2 /\ WellFormedMarket(markets[code])
        /\ BlobViolatesInvariants(last.records) =>
               last.raised /\ markets = NoMarkets

\* the load returned and the registry exposes a market that closes before it opens
C20_Counterexample ==
    /\ last.op = "_load_markets"
    /\ ~last.raised
    /\ \E code \in DOMAIN markets : markets[code].close < markets[code].open


\* C21: calculate_settlement_date terminates within a bounded number of date steps,
\* capped at 30 like the other scans: the advance never steps over more than 30 dates,
\* whatever the calendar.
C21_SettlementAdvanceIsCapped ==
    last.op = "calculate_settlement_date" =>
        last.result.days_to_settle <= CommonScanIterations

\* a closure longer than the cap follows the trade date and the advance walks through
\* all of it, one iteration per date
C21_Counterexample ==
    /\ last.op = "calculate_settlement_date"
    /\ last.settlement_cycle = 1
    /\ last.result.days_to_settle > CommonScanIterations
    /\ Len(last.result.skipped_days) >= CommonScanIterations
    /\ last.result.settlement_date = last.date + last.result.days_to_settle


\* C22: when the roll-forward of calculate_common_settlement_date exceeds 30 iterations
\* without reaching a date on which both markets are settlement days, the operation
\* fails instead of returning a date: a date that is returned is a settlement day of
\* both markets.
C22_ExhaustedRollForwardReturnsNoDate ==
    last.op = "calculate_common_settlement_date" =>
        BothSettle(last.market_a, last.market_b, last.result.common_date)

\* none of the 30 dates from the later of the two settlement dates is a settlement day
\* of both markets, and the date after them is returned although a market is closed
C22_Counterexample ==
    /\ last.op = "calculate_common_settlement_date"
    /\ LET start == Max(last.result.result_a.settlement_date,
                        last.result.result_b.settlement_date)
       IN
       /\ \A d \in start..(start + CommonScanIterations - 1) :
              ~BothSettle(last.market_a, last.market_b, d)
       /\ last.result.common_date = start + CommonScanIterations
    /\ ~BothSettle(last.market_a, last.market_b, last.result.common_date)


(***************************************************************************)
(* The next and the previous trading day over calendars                    *)
(***************************************************************************)
\* dates get_previous_trading_day is asked from: after a weekend, after a holiday,
\* and near the end of the long closure
PreviousQueryDates == {3, 4, 8, LongClosureStart + 31}

\* HolidayCalendar.get_next_trading_day returns or raises
ReturnGetNextTradingDay ==
    /\ Calling("get_next_trading_day")
    /\ last' = [op |-> "get_next_trading_day", market |-> last.args.market,
                from_date |-> last.args.from_date,
                result |-> get_next_trading_day(last.args.market, last.args.from_date)]
    /\ Unchanged_data

\* HolidayCalendar.get_previous_trading_day returns or raises
ReturnGetPreviousTradingDay ==
    /\ Calling("get_previous_trading_day")
    /\ last' = [op |-> "get_previous_trading_day", market |-> last.args.market,
                from_date |-> last.args.from_date,
                result |-> get_previous_trading_day(last.args.market,
                                                    last.args.from_date)]
    /\ Unchanged_data

InitTradingDays ==
    /\ markets = Registry([m \in Markets |-> 1], CutOff)
    /\ exchange \in Calendars
    /\ manual_holidays \in ManualHolidayTables
    /\ InitOverrideStore
    /\ last \in { Call("get_next_trading_day", [market |-> m, from_date |-> d]) :
                      m \in Markets, d \in QueryDates }
                \cup { Call("get_previous_trading_day", [market |-> m, from_date |-> d]) :
                      m \in Markets, d \in PreviousQueryDates }

NextTradingDays ==
    \/ ReturnGetNextTradingDay
    \/ ReturnGetPreviousTradingDay

SpecTradingDays == InitTradingDays /\ [][NextTradingDays]_vars

\* the scan found the trading day of the window nearest to from_date, or raised when
\* the window holds none
NearestTradingDay(result, m, from_date, window) ==
    IF \E d \in window : is_trading_day(m, d)
    THEN /\ ~result.raised
         /\ result.date \in window
         /\ is_trading_day(m, result.date)
         /\ \A d \in window :
                is_trading_day(m, d) =>
                    (IF result.date >= from_date THEN result.date <= d
                     ELSE result.date >= d)
    ELSE result.raised

\* C23: get_next_trading_day(market, from) returns the smallest trading day d with
\* from < d <= from + 30 and raises when that window holds no trading day;
\* get_previous_trading_day is the mirror image, scanning backward.
C23_NextTradingDayIsNearestInWindow ==
    /\ last.op = "get_next_trading_day" =>
           NearestTradingDay(last.result, last.market, last.from_date,
               (last.from_date + 1)..(last.from_date + TradingDayScanIterations))
    /\ last.op = "get_previous_trading_day" =>
           NearestTradingDay(last.result, last.market, last.from_date,
               (last.from_date - TradingDayScanIterations)..(last.from_date - 1))

\* from a Friday the next trading day is the Monday after it
C23_Witness ==
    /\ last.op = "get_next_trading_day"
    /\ weekday(last.from_date) = 4
    /\ ~last.result.raised
    /\ last.result.date = last.from_date + 3


(***************************************************************************)
(* The next viable trade date over calendars and trading hours             *)
(***************************************************************************)
\* registries: the hours of the two exchanges, which overlap; Hong Kong's morning
\* and Tokyo's afternoon, where one session ends at the instant the other begins;
\* and hours an hour apart
ViableRegistries ==
    { Registry([m \in Markets |-> 1], CutOff),
      [m \in Markets |->
          IF m = "HK" THEN Market(Timezone[m], 570, 720, NoTime, NoTime, 1, CutOff[m])
                      ELSE Market(Timezone[m], 780, 900, NoTime, NoTime, 1, CutOff[m])],
      [m \in Markets |->
          IF m = "HK" THEN Market(Timezone[m], 570, 720, NoTime, NoTime, 1, CutOff[m])
                      ELSE Market(Timezone[m], 840, 900, NoTime, NoTime, 1, CutOff[m])] }

\* CalendarService.find_next_viable_trade_date returns or raises
ReturnFindNextViableTradeDate ==
    /\ Calling("find_next_viable_trade_date")
    /\ last' = [op |-> "find_next_viable_trade_date",
                market_a |-> last.args.market_a, market_b |-> last.args.market_b,
                from_date |-> last.args.from_date,
                require_overlap |-> last.args.require_overlap,
                result |-> find_next_viable_trade_date(
                               last.args.market_a, last.args.market_b,
                               last.args.from_date, last.args.require_overlap)]
    /\ Unchanged_data

InitViable ==
    /\ markets \in ViableRegistries
    /\ exchange \in ExchangeCalendars
    /\ manual_holidays \in ManualHolidayTables
    /\ InitOverrideStore
    /\ last \in { Call("find_next_viable_trade_date",
                       [market_a |-> mm[1], market_b |-> mm[2], from_date |-> d,
                        require_overlap |-> r]) :
                      mm \in {<<"HK", "JP">>, <<"JP", "HK">>}, d \in TradeDates,
                      r \in BOOLEAN }

NextViable == ReturnFindNextViableTradeDate

SpecViable == InitViable /\ [][NextViable]_vars

\* both markets trade on d and, when an overlap is required, their sessions share a
\* non-empty half-open interval on d
ViableOn(a, b, d, require_overlap) ==
    /\ is_trading_day(a, d)
    /\ is_trading_day(b, d)
    /\ require_overlap => HalfOpenIntersections(a, b, d) # {}

\* C24: find_next_viable_trade_date(a, b, from, require_overlap) returns the first
\* date d >= from on which both markets are trading days and, when require_overlap is
\* true, on which the overlap calculator reports a non-empty window; no earlier date
\* from `from` on satisfies the condition, and the scan is bounded: it raises when
\* none of the 60 dates from `from` does.
C24_NextViableDateIsFirstViable ==
    last.op = "find_next_viable_trade_date" =>
        LET scanned == last.from_date..(last.from_date + ViableScanIterations - 1)
            viable(d) == ViableOn(last.market_a, last.market_b, d, last.require_overlap)
        IN
        IF \E d \in scanned : viable(d)
        THEN /\ ~last.result.raised
             /\ last.result.date \in scanned
             /\ viable(last.result.date)
             /\ \A d \in last.from_date..(last.result.date - 1) : ~viable(d)
        ELSE last.result.raised

\* an overlap is required, the first date is skipped, and a later date is returned
C24_Witness ==
    /\ last.op = "find_next_viable_trade_date"
    /\ last.require_overlap
    /\ ~last.result.raised
    /\ last.result.date > last.from_date
    /\ get_trading_overlap_for_date(last.market_a, last.market_b,
                                    last.result.date).windows # << >>


(***************************************************************************)
(* check_settlement with executions at the edges of the overlap windows    *)
(***************************************************************************)
\* execution times, as minutes after 00:00 UTC of the trade date: the start, the
\* inside and the end of an overlap window of the two exchanges, and a lunch break
ExecutionEdgeOffsets == {90, 120, 150, 180, 240}

InitExecution ==
    /\ markets \in { Registry(cycle, CutOff) : cycle \in [Markets -> {1, 2}] }
    /\ exchange \in ExchangeCalendars
    /\ manual_holidays = EmptyTable
    /\ InitOverrideStore
    /\ last \in CheckSettlementCalls(TradeDates, ExecutionEdgeOffsets, ConsoleClock)

NextExecution == ReturnCheckSettlement

SpecExecution == InitExecution /\ [][NextExecution]_vars

\* the overlap windows of the last check's markets on its trade date
LastCheckWindows ==
    get_trading_overlap_for_date(last.request.buy_market, last.request.sell_market,
                                 last.request.trade_date).windows

\* the last check had an execution time and its details say whether it is valid
LastCheckJudgedExecution ==
    /\ last.op = "check_settlement"
    /\ ~last.result.raised
    /\ last.request.has_execution_time
    /\ last.result.details.execution_time_valid # "None"

\* C25: when an execution time is supplied, details.execution_time_valid is true
\* exactly when the execution instant lies inside some overlap window of the trade
\* date taken as a half-open interval [start_utc, end_utc): an execution exactly at a
\* window's end is not valid.
C25_ExecutionValidInsideHalfOpenWindow ==
    LastCheckJudgedExecution =>
        last.result.details.execution_time_valid
            = OptionalBool(\E i \in DOMAIN LastCheckWindows :
                  is_time_in_range(last.request.execution_time,
                                   LastCheckWindows[i].start_utc,
                                   LastCheckWindows[i].end_utc))

\* the execution is at the instant an overlap window ends, inside no window, and the
\* details call it valid
C25_Counterexample ==
    /\ LastCheckJudgedExecution
    /\ \E i \in DOMAIN LastCheckWindows :
           last.request.execution_time = LastCheckWindows[i].end_utc
    /\ \A i \in DOMAIN LastCheckWindows :
           ~is_time_in_range(last.request.execution_time,
                             LastCheckWindows[i].start_utc, LastCheckWindows[i].end_utc)
    /\ last.result.details.execution_time_valid = "True"


\* the step changed at most the entry of (m, d) in the per-market table
OnlyEntryChanged(before, after, m, d) ==
    \A m2 \in Markets :
        /\ DOMAIN after[m2] \ {d} = DOMAIN before[m2] \ {d}
        /\ m2 # m => DOMAIN after[m2] = DOMAIN before[m2]
        /\ \A d2 \in DOMAIN before[m2] \cap DOMAIN after[m2] :
               (m2 # m \/ d2 # d) => after[m2][d2] = before[m2][d2]

\* the persisted list holds one record for each entry of the table and no other
BlobHoldsTable(file, table) ==
    /\ file.complete
    /\ \A x, y \in file.overrides :
           (x.market_code = y.market_code /\ x.date = y.date) => x = y
    /\ TableOf(file.overrides) = table

FlagHolidays ==
    { Holiday("Special Closure", "special_closure", at, as, "manual") :
          at \in BOOLEAN, as \in BOOLEAN }

\* HolidayCalendar.add_manual_holiday, for any of the console's dates and any flags
AddFlagHoliday ==
    \E m \in Markets, d \in ConsoleDates, holiday \in FlagHolidays :
        /\ d \in DOMAIN manual_holidays[m] \/ Entries(manual_holidays) < MaxManualHolidays
        /\ manual_holidays' = Put(manual_holidays, m, d, holiday)
        /\ last' = [op |-> "add_manual_holiday", market |-> m, date |-> d,
                    holiday |-> holiday, returned |-> TRUE]
        /\ UNCHANGED <<markets, exchange, public_holidays, overrides, blob, procs>>

\* HolidayCalendar.remove_manual_holiday, for any of the console's dates
RemoveFlagHoliday ==
    \E m \in Markets, d \in ConsoleDates :
        /\ manual_holidays' = IF d \in DOMAIN manual_holidays[m]
                              THEN Delete(manual_holidays, m, d)
                              ELSE manual_holidays
        /\ last' = [op |-> "remove_manual_holiday", market |-> m, date |-> d,
                    returned |-> d \in DOMAIN manual_holidays[m]]
        /\ UNCHANGED <<markets, exchange, public_holidays, overrides, blob, procs>>

InitFlags ==
    /\ markets = Registry([m \in Markets |-> 1], CutOff)
    /\ exchange \in [Markets -> SUBSET HolidayDates]
    /\ manual_holidays = EmptyTable
    /\ InitOverrideStore
    /\ last = [op |-> "init"]

NextFlags ==
    \/ AddFlagHoliday
    \/ RemoveFlagHoliday

SpecFlags == InitFlags /\ [][NextFlags]_vars

\* C27: in every reachable state of a market's calendar, whatever the exchange
\* sessions and the manual holidays with their flags, is_settlement_day(d) implies
\* is_trading_day(d).
C27_SettlementDaysAreTradingDays ==
    \A m \in Markets : \A d \in 0..(MaxTradeDate + 1) :
        HolidayCalendar_is_settlement_day(m, d) => HolidayCalendar_is_trading_day(m, d)

\* a manual holiday on an exchange session closes trading and claims not to affect
\* settlement, and the date is not a settlement day
C27_Witness ==
    \E m \in Markets : \E d \in DOMAIN manual_holidays[m] :
        /\ is_session(m, d)
        /\ manual_holidays[m][d].affects_trading
        /\ ~manual_holidays[m][d].affects_settlement
        /\ ~HolidayCalendar_is_trading_day(m, d)
        /\ ~HolidayCalendar_is_settlement_day(m, d)


\* the dates of a record of skipped days, in the order recorded
SkippedDates(skipped_days) == [i \in 1..Len(skipped_days) |-> skipped_days[i][1]]

\* C28: the result of calculate_settlement_date for cycle n satisfies days_to_settle =
\* n + len(skipped_days) = settlement_date - T; skipped_days lists, ascending and
\* without repeats, exactly the non-settlement dates strictly between T and
\* settlement_date; and for n >= 1 settlement_date is a settlement day.
C28_SettlementResultAccountsForEveryDate ==
    last.op = "calculate_settlement_date" =>
        LET r == last.result
            dates == SkippedDates(r.skipped_days) IN
        /\ r.days_to_settle = last.settlement_cycle + Len(r.skipped_days)
        /\ r.days_to_settle = r.settlement_date - last.date
        /\ \A i \in 1..(Len(dates) - 1) : dates[i] < dates[i + 1]
        /\ { dates[i] : i \in 1..Len(dates) } =
               { d \in (last.date + 1)..(r.settlement_date - 1) :
                     ~HolidayCalendar_is_settlement_day(last.market, d) }
        /\ last.settlement_cycle >= 1 =>
               HolidayCalendar_is_settlement_day(last.market, r.settlement_date)

\* a two-day cycle walks over at least two skipped dates and a settlement day between
\* the trade date and the settlement date
C28_Witness ==
    /\ last.op = "calculate_settlement_date"
    /\ last.settlement_cycle = 2
    /\ Len(last.result.skipped_days) >= 2
    /\ last.result.days_to_settle = 2 + Len(last.result.skipped_days)
    /\ last.result.skipped_days[1][1] > last.date + 1


(***************************************************************************)
(* Checks whose execution time falls on a date other than the trade date   *)
(***************************************************************************)
\* how many days after the trade date the execution time lies
ExecutionDayShifts == {0 - 1, 0, 1, 2}

InitCutOff ==
    /\ markets \in EngineRegistries
    /\ exchange \in ExchangeCalendars
    /\ manual_holidays = EmptyTable
    /\ InitOverrideStore
    /\ last \in { Call("check_settlement",
                       [request |-> Request(d, mm[1], mm[2], TRUE,
                                            (d + k) * MinutesPerDay + o),
                        current_utc |-> now]) :
                      d \in TradeDates, mm \in {<<"HK", "JP">>, <<"JP", "HK">>},
                      k \in ExecutionDayShifts, o \in ExecutionOffsets,
                      now \in ConsoleClock }

NextCutOff == ReturnCheckSettlement

SpecCutOff == InitCutOff /\ [][NextCutOff]_vars

\* what a caller sees of a check: its status, or that it raised
StatusOf(result) == IF result.raised THEN "raised" ELSE result.status

\* the outcome of the cut-off checks of a result
CutOffOutcome(result) ==
    [i \in 1..Len(result.cut_off_checks) |->
        [is_before_cut_off |-> result.cut_off_checks[i].is_before_cut_off,
         time_remaining |-> result.cut_off_checks[i].time_remaining]]

\* C29: the outcome of a market's cut-off check depends only on the local time of day
\* of the execution time and on the configured cut-off: a request that differs from
\* the checked one only in the calendar date of its execution time gets the same
\* is_before_cut_off, the same time_remaining and the same status.
C29_CutOffOutcomeIgnoresExecutionDate ==
    (last.op = "check_settlement" /\ last.request.has_execution_time) =>
        \A k \in ExecutionDayShifts :
            LET other == [last.request EXCEPT
                              !.execution_time = @ + k * MinutesPerDay]
                twin == check_settlement(other, last.current_utc)
            IN
            /\ CutOffOutcome(twin) = CutOffOutcome(last.result)
            /\ StatusOf(twin) = StatusOf(last.result)

\* a check on a valid trade date whose execution time lies on another local date in
\* both markets, before the buy market's cut-off and past the sell market's
C29_Witness ==
    /\ last.op = "check_settlement"
    /\ last.request.has_execution_time
    /\ last.result.trade_date_valid
    /\ \A m \in {last.request.buy_market, last.request.sell_market} :
           date_of(convert_from_utc(last.request.execution_time, markets[m].timezone))
               # last.request.trade_date
    /\ last.result.cut_off_checks[1].is_before_cut_off
    /\ last.result.cut_off_checks[1].time_remaining > 0
    /\ ~last.result.cut_off_checks[2].is_before_cut_off


(***************************************************************************)
(* Market status at an instant of the clock                                *)
(***************************************************************************)
\* TimezoneService.combine_date_time: the instant of a date and a local time in a zone
combine_date_time(d, t, tz) == d * MinutesPerDay + t - tz

\* LunchBreak.is_during_lunch
is_during_lunch(market, check_time) ==
    market.lunch_start <= check_time /\ check_time < market.lunch_end

\* TradingHours.is_trading_time
is_trading_time(market, check_time) ==
    IF ~(market.open <= check_time /\ check_time < market.close) THEN FALSE
    ELSE IF market.lunch_start # NoTime /\ is_during_lunch(market, check_time) THEN FALSE
    ELSE TRUE

\* TradingHours.get_session
get_session(market, check_time) ==
    IF check_time < market.open THEN "pre_market"
    ELSE IF check_time >= market.close THEN "post_market"
    ELSE IF market.lunch_start # NoTime
    THEN IF check_time < market.lunch_start THEN "morning"
         ELSE IF check_time < market.lunch_end THEN "lunch"
         ELSE "afternoon"
    ELSE "regular"

\* SettlementEngine.get_market_status and MarketStatusService.get_current_market_status
\* (the same code) with the clock at the instant now; the formatted durations are left
\* out of the record
get_market_status(market_code, now) ==
    LET market == markets[market_code]
        local_now == convert_from_utc(now, market.timezone)
        local_date == date_of(local_now)
        local_time == time_of(local_now)
        trading_day == is_trading_day(market_code, local_date)
        holiday == get_holiday_info(market_code, local_date)
        is_open == trading_day /\ is_trading_time(market, local_time)
        current_session == IF trading_day THEN get_session(market, local_time)
                           ELSE "closed"
        opens_today == trading_day /\ local_time < market.open
        next_trading == get_next_trading_day(market_code, local_date)
        status(next_open, next_close) ==
            [raised |-> FALSE, market_code |-> market_code, is_open |-> is_open,
             current_session |-> current_session,
             local_date |-> local_date, local_time |-> local_time,
             trading_hours_open |-> IF trading_day THEN market.open ELSE NoTime,
             trading_hours_close |-> IF trading_day THEN market.close ELSE NoTime,
             next_open |-> next_open, next_close |-> next_close,
             is_holiday |-> holiday.present /\ holiday.holiday_type # "weekend",
             is_weekend |-> is_weekend(local_date),
             depository_cut_off |-> market.depository_cut_off,
             is_before_cut_off |->
                 IF market.depository_cut_off # NoTime /\ trading_day
                 THEN local_time < market.depository_cut_off
                 ELSE TRUE]
    IN
    IF is_open
    THEN status(NoTime, combine_date_time(local_date, market.close, market.timezone))
    ELSE IF opens_today
    THEN status(combine_date_time(local_date, market.open, market.timezone), NoTime)
    ELSE IF next_trading.raised
    THEN [raised |-> TRUE, market_code |-> market_code]
    ELSE status(combine_date_time(next_trading.date, market.open, market.timezone),
                NoTime)

\* get_market_status returns
ReturnGetMarketStatus ==
    /\ Calling("get_market_status")
    /\ last' = [op |-> "get_market_status", market |-> last.args.market,
                now |-> last.args.now,
                result |-> get_market_status(last.args.market, last.args.now)]
    /\ Unchanged_data

\* local times of day of the clock: before the open, in each session, in the lunch
\* break, at the edges, and after the close of either market
StatusLocalTimes == {0, 539, 540, 569, 570, 600, 690, 700, 720, 749, 750, 779, 780,
                     800, 899, 900, 959, 960, 1000}

InitStatus ==
    /\ markets = Registry([m \in Markets |-> 1], CutOff)
    /\ exchange \in Calendars
    /\ manual_holidays \in ManualHolidayTables
    /\ InitOverrideStore
    /\ last \in { Call("get_market_status",
                       [market |-> m,
                        now |-> combine_date_time(d, t, markets[m].timezone)]) :
                      m \in Markets, d \in QueryDates, t \in StatusLocalTimes }

NextStatus == ReturnGetMarketStatus

SpecStatus == InitStatus /\ [][NextStatus]_vars

\* the instants after now at which the market enters a trading session: the open and
\* the end of the lunch break of its trading days
SessionStartsAfter(m, now) ==
    LET starts == { combine_date_time(d, t, markets[m].timezone) :
                        d \in { x \in 0..Horizon : is_trading_day(m, x) },
                        t \in {markets[m].open, markets[m].lunch_end} \ {NoTime} }
    IN { i \in starts : i > now }

\* C30: whenever get_market_status reports is_open = false, next_open is the earliest
\* later instant at which the market enters a trading session: the same day's open
\* before the open, the start of the afternoon session during the lunch break, the
\* next trading day's open after the close or on a non-trading day.
C30_NextOpenIsEarliestSessionStart ==
    (last.op = "get_market_status" /\ ~last.result.raised /\ ~last.result.is_open) =>
        /\ last.result.next_open \in SessionStartsAfter(last.market, last.now)
        /\ \A i \in SessionStartsAfter(last.market, last.now) : last.result.next_open <= i

\* in the lunch break of a trading day the status is closed and next_open is the open
\* of a later day, after the afternoon session of the same day has started and ended
C30_Counterexample ==
    /\ last.op = "get_market_status"
    /\ ~last.result.raised
    /\ ~last.result.is_open
    /\ last.result.current_session = "lunch"
    /\ is_trading_day(last.market, last.result.local_date)
    /\ last.result.next_open >
           combine_date_time(last.result.local_date, markets[last.market].close,
                             markets[last.market].timezone)
    /\ last.now < combine_date_time(last.result.local_date,
                                    markets[last.market].lunch_end,
                                    markets[last.market].timezone)

====
